---- MODULE Spec2Model ----
(***************************************************************************)
(* A model of the NITE node: the event dispatch core (nite/event.py), the *)
(* AMQP queue connector (nite/queue/connector/amqp_queue_connector.py),   *)
(* the worker pool (nite/worker.py) and the supervisor (nite/core.py).    *)
(*                                                                         *)
(* Dotted names are modelled as the sequence of their components, so that *)
(* module + '.' + name is concatenation: "demo.Ping" is <<"demo","Ping">>.*)
(***************************************************************************)
EXTENDS Integers, Sequences, FiniteSets, TLC

VARIABLES
    event_listeners,            \* EventManager._event_listeners: name -> dict(priority -> list)
    bound_event_names,          \* AmqpQueueConnector._bound_event_names
    producer_queue,             \* AmqpQueueConnector._producer_queue
    consumer_queue,             \* AmqpQueueConnector._consumer_queue
    ack_queue,                  \* AmqpQueueConnector._ack_queue
    processes_should_terminate, \* AmqpQueueConnector._processes_should_terminate
    worker_terminate,           \* WorkerManager.terminate
    main,                       \* position of the supervisor (NITECore.start / stop)
    producer,                   \* position of the producer sub-process
    consumer,                   \* position of the consumer sub-process
    workers,                    \* per worker: position, the pair in hand, the outcome of its Handle
    broker,                     \* the broker as this node sees it: published messages, deliveries, acks
    handled,                    \* history: per Handle run by a worker, its delivery tag and outcome
    regLog,                     \* history: the Register calls made, in call order
    last,                       \* history: the most recent call made by the main process and its outcome
    peers,                      \* the nodes of a mesh: per node its registry, queues and worker
    amqp,                       \* the broker of the mesh: bindings, queues, consumers, unacked deliveries
    sent,                       \* history: the Trigger calls made in the mesh, in call order
    runs,                       \* history: the Handle runs of the workers of the mesh
    core                        \* the main process in NITECore: position, attributes, steps done

nodeVars == <<event_listeners, bound_event_names, producer_queue, consumer_queue, ack_queue,
              processes_should_terminate, worker_terminate, main, producer, consumer, workers,
              broker, handled, regLog, last>>

meshVars == <<peers, amqp, sent, runs>>

coreVars == <<core>>

vars == <<nodeVars, meshVars, coreVars>>

-----------------------------------------------------------------------------
(* Bounds of the model *)

MaxRegs == 2

MaxQueue == 2

MaxNodeRegs == 1

MaxDeliveries == 2

-----------------------------------------------------------------------------
(* Enumerations: nite/util.py enum() numbers its names from 0 in order *)

HIGHEST == 0

HIGH == 1

MEDIUM == 2

LOW == 3

LOWEST == 4

NoPriority == -1

EventPriority == {HIGHEST, HIGH, MEDIUM, LOW, LOWEST}

\* The members of EventDemographic are integers and a node identifier is a
\* string, so the two never coincide; here both are strings of disjoint sets.
EventDemographic == {"LOCAL", "GLOBAL_SINGLE", "GLOBAL_ALL"}

NodeIds == {"B"}

Listeners == {"L1", "L2"}

None == [none |-> TRUE]

-----------------------------------------------------------------------------
(* Classes, instances and names *)

Ping == [module |-> <<"demo">>, name |-> "Ping"]

DictClass == [module |-> <<"builtins">>, name |-> "dict"]

\* cls.__module__ + '.' + cls.__name__
QualifiedName(cls) == cls.module \o <<cls.name>>

\* BaseEvent.__init__: a fresh instance of an event class, with its uuid, its
\* timestamp (datetime.utcnow().isoformat()) and its version
NewEvent(cls, uuid) ==
    [class |-> cls,
     attrs |-> [_uuid |-> uuid, _timestamp |-> "2015-03-01T12:00:00.000000", _version |-> 1]]

\* The constructor of an event subtype: the payload is set as attributes
WithPayload(event, payload) == [event EXCEPT !.attrs = payload @@ @]

\* Variant: the instance is built by running the constructor, whose values stand
load_ThroughInit(cls, data) == [class |-> cls, attrs |-> NewEvent(cls, "fresh").attrs @@ data]

\* BaseEvent.load: cls.__new__(cls), then setattr of every key of data
load(cls, data) == [class |-> cls, attrs |-> data]

\* BaseEvent.dump: a plain dict {'event': <fqn>, 'data': self.__dict__}
dump(event) == [class |-> DictClass, event |-> QualifiedName(event.class), data |-> event.attrs]

\* isinstance(x, dict)
IsDict(x) == x.class = DictClass

\* Reading self.<name>: the value when the instance has the attribute, else
\* AttributeError
Attribute(event, name) ==
    IF name \in DOMAIN event.attrs
    THEN [outcome |-> "returned", value |-> event.attrs[name]]
    ELSE [outcome |-> "raised", value |-> "AttributeError"]

\* BaseEvent.source: return self._source
source(event) == Attribute(event, "_source")

\* BaseEvent.reply_to_uuid: return self._reply_to_uuid
reply_to_uuid(event) == Attribute(event, "_reply_to_uuid")

\* BaseEvent.is_reply: return self._reply_to_uuid is not None
is_reply(event) ==
    IF reply_to_uuid(event).outcome = "raised" THEN reply_to_uuid(event)
    ELSE [outcome |-> "returned", value |-> reply_to_uuid(event).value # "None"]

-----------------------------------------------------------------------------
(* The listener registry *)

\* Variant: the literal lists MEDIUM, the default priority, first
NewEntry_MediumFirst ==
    << [priority |-> MEDIUM,  listeners |-> <<>>],
       [priority |-> HIGHEST, listeners |-> <<>>],
       [priority |-> HIGH,    listeners |-> <<>>],
       [priority |-> LOW,     listeners |-> <<>>],
       [priority |-> LOWEST,  listeners |-> <<>>] >>

\* The dict literal of register_event_listener, in insertion order; a dict
\* iterates its items in that order.
NewEntry ==
    << [priority |-> HIGHEST, listeners |-> <<>>],
       [priority |-> HIGH,    listeners |-> <<>>],
       [priority |-> MEDIUM,  listeners |-> <<>>],
       [priority |-> LOW,     listeners |-> <<>>],
       [priority |-> LOWEST,  listeners |-> <<>>] >>

\* self.event_listeners[event_name][priority].append(listener)
AppendListener(entry, priority, listener) ==
    [i \in 1..Len(entry) |->
        IF entry[i].priority = priority
        THEN [entry[i] EXCEPT !.listeners = Append(@, listener)]
        ELSE entry[i]]

\* event_name of register_event_listener: the class's qualified name, or the value itself
EventNameOf(event) ==
    IF event.isclass THEN QualifiedName(event.cls) ELSE event.value

\* Variant: the default is taken for every priority that is false as a
\* boolean, which HIGHEST (0) is
PriorityOf_Falsy(priority) ==
    IF priority = NoPriority \/ priority = 0 THEN MEDIUM ELSE priority

\* priority of register_event_listener: MEDIUM when none is given
PriorityOf(priority) == IF priority = NoPriority THEN MEDIUM ELSE priority

\* The registry after register_event_listener(event, listener, priority)
Registered(registry, event, listener, priority) ==
    LET name  == EventNameOf(event)
        entry == IF name \in DOMAIN registry THEN registry[name] ELSE NewEntry
    IN  [n \in (DOMAIN registry) \cup {name} |->
            IF n = name THEN AppendListener(entry, PriorityOf(priority), listener)
            ELSE registry[n]]

\* The listeners of an entry in the order the two nested loops of handle_event visit them
RECURSIVE IterationOrder(_)
IterationOrder(items) ==
    IF items = <<>> THEN <<>>
    ELSE Head(items).listeners \o IterationOrder(Tail(items))

\* The index of the first listener of calls that raises, 0 when none does
RECURSIVE FirstRaise(_, _, _)
FirstRaise(calls, raisers, i) ==
    IF i > Len(calls) THEN 0
    ELSE IF calls[i] \in raisers THEN i
    ELSE FirstRaise(calls, raisers, i + 1)

\* Variant: a name without an entry is handled as one without listeners
HandleEvent_MissingAsEmpty(registry, event, raisers) ==
    LET event_name == QualifiedName(event.class)
        order == IF event_name \in DOMAIN registry
                 THEN IterationOrder(registry[event_name]) ELSE <<>>
        k     == FirstRaise(order, raisers, 1)
    IN  IF k = 0
        THEN [outcome |-> "returned", value |-> "None", name |-> event_name, calls |-> order]
        ELSE [outcome |-> "LISTENER_FAILED", value |-> "none", name |-> event_name,
              calls |-> SubSeq(order, 1, k)]

\* Variant: a listener's error is swallowed and the remaining listeners still run
HandleEvent_KeepGoing(registry, event, raisers) ==
    LET event_name == QualifiedName(event.class)
    IN  IF event_name \notin DOMAIN registry
        THEN [outcome |-> "NO_LISTENERS", value |-> "none", name |-> event_name, calls |-> <<>>]
        ELSE [outcome |-> "returned", value |-> "None", name |-> event_name,
              calls |-> IterationOrder(registry[event_name])]

\* handle_event(event), with the listeners of raisers raising when called:
\* the listeners called in order, and how the call ended. A call that ends
\* normally returns None (the function has no return statement).
HandleEvent(registry, event, raisers) ==
    LET event_name == QualifiedName(event.class)
    IN  IF event_name \notin DOMAIN registry
        THEN [outcome |-> "NO_LISTENERS", value |-> "none", name |-> event_name, calls |-> <<>>]
        ELSE LET order == IterationOrder(registry[event_name])
                 k     == FirstRaise(order, raisers, 1)
             IN  IF k = 0
                 THEN [outcome |-> "returned", value |-> "None", name |-> event_name,
                       calls |-> order]
                 ELSE [outcome |-> "LISTENER_FAILED", value |-> "none", name |-> event_name,
                       calls |-> SubSeq(order, 1, k)]

-----------------------------------------------------------------------------
(* Inputs *)

CommandEvent == [module |-> <<"nite", "command">>, name |-> "CommandEvent"]

\* What a caller may pass as `event` to register_event_listener: a class or a string
ClassId(cls) == [isclass |-> TRUE, cls |-> cls, value |-> <<>>]

StringId(s) == [isclass |-> FALSE, cls |-> DictClass, value |-> s]

\* The Register calls of the dispatch core's specification: listeners of every
\* priority for the CommandEvent class, and of two priorities for the name that
\* a dict has
RegistrationInputs ==
    ({ClassId(CommandEvent)} \X Listeners \X EventPriority)
        \cup ({StringId(<<"builtins", "dict">>)} \X Listeners \X {HIGH, LOW})

NodeEventIdentifiers == {ClassId(Ping)}

ProducerEventIdentifiers == {ClassId(Ping), StringId(<<"builtins", "dict">>)}

Uuids == {"u1"}

RaiserSets == SUBSET Listeners

-----------------------------------------------------------------------------
(* The state after construction: NITECore.start up to the loading of modules *)

NoCall == [op |-> "none", outcome |-> "none", value |-> "none", name |-> <<>>,
           calls |-> <<>>, raisers |-> {}, event |-> <<>>, demographic |-> "none",
           live |-> FALSE]

NoItem == [event |-> None, delivery_tag |-> 0]

Workers == {"w1", "w2"}

\* The nodes of the mesh, by node identifier
MeshNodes == {"A", "B", "node.C"}

\* The components a node identifier has between its dots. A component is
\* either 'node' itself or does not end in 'node'.
Components(node_identifier) ==
    IF node_identifier = "node.C" THEN <<"node", "C">> ELSE <<node_identifier>>

\* 'node.' + node_identifier
NodeKey(node_identifier) == <<"node">> \o Components(node_identifier)

\* What the modules of a node register while it starts up: A and B listen
\* for the same event, node.C for another one
MeshRegistration(n) == IF n = "node.C" THEN ClassId(CommandEvent) ELSE ClassId(Ping)

\* A node whose modules have registered their listener and whose connector
\* has not been started
NewPeer(n) ==
    [ registry       |-> Registered(<<>>, MeshRegistration(n), "L1", NoPriority),
      bound          |-> <<EventNameOf(MeshRegistration(n))>>,
      started        |-> FALSE,
      closed         |-> FALSE,
      producer_queue |-> <<>>,
      consumer_queue |-> <<>>,
      ack_queue      |-> <<>>,
      worker         |-> "loop",
      delivered      |-> 0,
      regs           |-> 1 ]

\* A broker on which nothing has been declared
NoBroker == [bindings |-> {}, ready |-> <<>>, consumers |-> {}, unacked |-> {}, acked |-> {}]

\* The main process before NITECore.__init__ has run: no attribute is set
NewCore ==
    [ pc              |-> "new",
      debug           |-> FALSE,
      daemonize       |-> FALSE,
      queue_type      |-> "unset",
      stopping        |-> FALSE,
      exit_handler    |-> FALSE,
      queue_connector |-> "unset",
      event_manager   |-> "unset",
      module_manager  |-> "unset",
      worker_manager  |-> "unset",
      signal          |-> "none",
      error           |-> "none",
      done            |-> <<>>,
      handlers        |-> <<>> ]

Init ==
    /\ event_listeners = <<>>
    /\ bound_event_names = <<>>
    /\ producer_queue = <<>>
    /\ consumer_queue = <<>>
    /\ ack_queue = <<>>
    /\ processes_should_terminate = FALSE
    /\ worker_terminate = FALSE
    /\ main = "startup"
    /\ producer = "new"
    /\ consumer = "new"
    /\ workers = [w \in Workers |-> [pc |-> "new", item |-> NoItem, registry |-> <<>>]]
    /\ broker = [published |-> <<>>, delivered |-> 0, acked |-> <<>>]
    /\ handled = {}
    /\ regLog = <<>>
    /\ last = NoCall
    /\ peers = [n \in MeshNodes |-> NewPeer(n)]
    /\ amqp = NoBroker
    /\ sent = <<>>
    /\ runs = {}
    /\ core = NewCore

\* The connector has been started (AmqpQueueConnector.start has run)
Live == main \notin {"startup"}

-----------------------------------------------------------------------------
(* The dispatch core: operations of the main process *)

\* Variant: the hook is called on every registration
HookedNames_EveryCall(names, registry, name) == Append(names, name)

\* register_event_hook(event): called on the first registration of a name only
HookedNames(names, registry, name) ==
    IF name \in DOMAIN registry THEN names ELSE Append(names, name)

\* register_event_listener(event, listener, priority)
RegisterListener(event, listener, priority) ==
    /\ event_listeners' = Registered(event_listeners, event, listener, priority)
    /\ bound_event_names' = HookedNames(bound_event_names, event_listeners, EventNameOf(event))
    /\ regLog' = Append(regLog, [event |-> event, listener |-> listener,
                                 priority |-> priority])
    /\ last' = [NoCall EXCEPT !.op = "register", !.outcome = "returned", !.value = "None",
                              !.name = EventNameOf(event), !.live = Live]

\* event_data of trigger_event: the event itself when it is a dict, else its dump
EventData(event) == IF IsDict(event) THEN event ELSE dump(event)

\* Variant: the default demographic is taken for the local one as well
IsLocal_OrDefault(demographic) == demographic \in {"LOCAL", "GLOBAL_SINGLE"}

\* trigger_event takes the local path
IsLocal(demographic) == demographic = "LOCAL"

\* publish_event(event, demographic, reply_to_event)
Published(queue, event_data, demographic, reply_to_event) ==
    Append(queue, [event |-> event_data, demographic |-> demographic, reply |-> reply_to_event])

\* trigger_event(event, demographic, reply_to_event); raisers are the listeners
\* that raise when called
TriggerEvent(event, demographic, reply_to_event, raisers) ==
    LET event_data == EventData(event)
        result     == HandleEvent(event_listeners, event_data, raisers)
    IN  IF IsLocal(demographic)
        THEN /\ producer_queue' = producer_queue
             /\ last' = [NoCall EXCEPT !.op = "trigger", !.outcome = result.outcome,
                                       !.value = result.value, !.name = result.name,
                                       !.calls = result.calls, !.raisers = raisers,
                                       !.event = QualifiedName(event.class),
                                       !.demographic = demographic, !.live = Live]
        ELSE /\ producer_queue' = Published(producer_queue, event_data, demographic,
                                            reply_to_event)
             /\ last' = [NoCall EXCEPT !.op = "trigger", !.outcome = "returned",
                                       !.value = "None",
                                       !.event = QualifiedName(event.class),
                                       !.demographic = demographic, !.live = Live]

\* CommandEvent.__init__(command): BaseEvent.__init__ is skipped by super(BaseEvent, self)
NewCommandEvent(command) ==
    [class |-> CommandEvent, attrs |-> [_command |-> command, _handled |-> FALSE]]

mainVars == <<main, processes_should_terminate, worker_terminate>>

procVars == <<producer, consumer, workers, broker, handled, consumer_queue, ack_queue>>

\* A module or a listener registers a listener
Register(event, listener, priority) ==
    /\ main \in {"startup", "running"}
    /\ Len(regLog) < MaxRegs
    /\ RegisterListener(event, listener, priority)
    /\ UNCHANGED <<mainVars, procVars, producer_queue, meshVars, coreVars>>

\* A module registers a listener while NITECore.start loads and starts the modules
RegisterAtStartup(event, listener, priority) ==
    /\ main = "startup"
    /\ Len(regLog) < MaxNodeRegs
    /\ RegisterListener(event, listener, priority)
    /\ UNCHANGED <<mainVars, procVars, producer_queue, meshVars, coreVars>>

\* A module or a listener of the main process triggers an event
Trigger(event, demographic, reply_to_event, raisers) ==
    /\ main \in {"startup", "running"}
    /\ IsLocal(demographic) \/ Len(producer_queue) + Len(broker.published) < MaxQueue
    /\ TriggerEvent(event, demographic, reply_to_event, raisers)
    /\ UNCHANGED <<mainVars, procVars, event_listeners, bound_event_names, regLog, meshVars, coreVars>>

\* One round of command_loop with a line read: handle_event(CommandEvent(line)).
\* An error raised by handle_event is caught nowhere and ends the main process.
Command(raisers) ==
    LET result == HandleEvent(event_listeners, NewCommandEvent("line"), raisers)
    IN  /\ main = "running"
        /\ last' = [NoCall EXCEPT !.op = "command", !.outcome = result.outcome,
                                  !.value = result.value, !.name = result.name,
                                  !.calls = result.calls, !.raisers = raisers,
                                  !.event = QualifiedName(CommandEvent),
                                  !.demographic = "none", !.live = Live]
        /\ main' = IF result.outcome = "returned" THEN main ELSE "exiting"
        /\ UNCHANGED <<processes_should_terminate, worker_terminate, procVars, producer_queue,
                       event_listeners, bound_event_names, regLog, meshVars, coreVars>>

\* AmqpQueueConnector.start: spawn and start the producer and the consumer
ConnectorStart ==
    /\ main = "startup"
    /\ main' = "connector_started"
    /\ producer' = "loop"
    /\ consumer' = "loop"
    /\ UNCHANGED <<event_listeners, bound_event_names, producer_queue, consumer_queue,
                   ack_queue, processes_should_terminate, worker_terminate, workers, broker,
                   handled, regLog, last, meshVars, coreVars>>

\* WorkerManager.start: a fresh termination flag, and each worker process is
\* started with the registry as it is at that moment (a process gets a copy)
StartedWorker(registry) == [pc |-> "loop", item |-> NoItem, registry |-> registry]

WorkersStart ==
    /\ main = "connector_started"
    /\ main' = "running"
    /\ worker_terminate' = FALSE
    /\ workers' = [w \in Workers |-> StartedWorker(event_listeners)]
    /\ UNCHANGED <<event_listeners, bound_event_names, producer_queue, consumer_queue,
                   ack_queue, processes_should_terminate, producer, consumer, broker,
                   handled, regLog, last, meshVars, coreVars>>

-----------------------------------------------------------------------------
(* The producer sub-process *)

NodeIdentifier == "A"

BaseExchangeName == "nite"

\* A map on the wire: its key/value pairs one after the other
RECURSIVE PackPairs(_, _)
PackPairs(d, keys) ==
    IF keys = {} THEN <<>>
    ELSE LET k == CHOOSE x \in keys : TRUE
         IN  <<[key |-> k, value |-> d[k]]>> \o PackPairs(d, keys \ {k})

PackMap(d) == PackPairs(d, DOMAIN d)

\* The dict read back from the pairs of a map
UnpackMap(pairs) ==
    [k \in {pairs[i].key : i \in 1..Len(pairs)} |->
        pairs[CHOOSE i \in 1..Len(pairs) : pairs[i].key = k].value]

\* msgpack.dumps of the dict {'event': ..., 'data': {...}}, and msgpack.loads
\* of the bytes
Pack(d) == [event |-> d.event, data |-> PackMap(d.data)]

Unpack(body) == [class |-> DictClass, event |-> body.event, data |-> UnpackMap(body.data)]

\* Variant: the routing key is that of the event whatever the demographic
RoutingKey_EventAlways(event_data, demographic) == <<"event">> \o event_data.event

\* routing_key: 'event.' + name unless the demographic is no member of the enum
RoutingKey(event_data, demographic) ==
    IF demographic \notin EventDemographic
    THEN NodeKey(demographic)
    ELSE <<"event">> \o event_data.event

\* Variant: every demographic is published to the fanout exchange
ExchangeName_AlwaysFanout(demographic) == <<BaseExchangeName, "_fanout">>

\* Variant: every demographic is published to the topic exchange
ExchangeName_AlwaysTopic(demographic) == <<BaseExchangeName, "_topic">>

\* exchange_name: base + '_fanout' for GLOBAL_ALL, else base + '_topic'
ExchangeName(demographic) ==
    <<BaseExchangeName, IF demographic = "GLOBAL_ALL" THEN "_fanout" ELSE "_topic">>

\* Variant: the correlation id is the uuid of the event itself
PublishedMessage_OwnCorrelation(triple, node_identifier) ==
    [ body           |-> Pack(triple.event),
      message_id     |-> triple.event.data._uuid,
      correlation_id |-> triple.event.data._uuid,
      reply_to       |-> NodeKey(node_identifier),
      exchange       |-> ExchangeName(triple.demographic),
      routing_key    |-> RoutingKey(triple.event, triple.demographic) ]

\* The Message built for a dequeued triple, with where basic_publish sends it
PublishedMessage(triple, node_identifier) ==
    [ body           |-> Pack(triple.event),
      message_id     |-> triple.event.data._uuid,
      correlation_id |-> IF triple.reply # None THEN triple.reply.attrs._uuid ELSE "None",
      reply_to       |-> NodeKey(node_identifier),
      exchange       |-> ExchangeName(triple.demographic),
      routing_key    |-> RoutingKey(triple.event, triple.demographic) ]

\* Variant: the producer leaves its loop when it finds the queue empty
ProducerTest_LeavesWhenEmpty ==
    /\ producer = "loop"
    /\ producer' = IF processes_should_terminate \/ producer_queue = <<>>
                   THEN "exited" ELSE "get"
    /\ UNCHANGED <<event_listeners, bound_event_names, producer_queue, consumer_queue,
                   ack_queue, mainVars, consumer, workers, broker, handled, regLog, last,
                   meshVars, coreVars>>

\* while not self.processes_should_terminate.value
ProducerTest ==
    /\ producer = "loop"
    /\ producer' = IF processes_should_terminate THEN "exited" ELSE "get"
    /\ UNCHANGED <<event_listeners, bound_event_names, producer_queue, consumer_queue,
                   ack_queue, mainVars, consumer, workers, broker, handled, regLog, last, meshVars, coreVars>>

\* Variant: the producer takes the triple put last
ProducerGet_NewestFirst ==
    /\ producer = "get"
    /\ producer' = "loop"
    /\ IF producer_queue = <<>>
       THEN UNCHANGED <<producer_queue, broker>>
       ELSE /\ producer_queue' = SubSeq(producer_queue, 1, Len(producer_queue) - 1)
            /\ broker' = [broker EXCEPT !.published =
                              Append(@, PublishedMessage(producer_queue[Len(producer_queue)],
                                                         NodeIdentifier))]
    /\ UNCHANGED <<event_listeners, bound_event_names, consumer_queue, ack_queue, mainVars,
                   consumer, workers, handled, regLog, last, meshVars, coreVars>>

\* producer_queue.get(block=True, timeout=0.1), then publish; queue.Empty is passed over
ProducerGet ==
    /\ producer = "get"
    /\ producer' = "loop"
    /\ IF producer_queue = <<>>
       THEN UNCHANGED <<producer_queue, broker>>
       ELSE /\ producer_queue' = Tail(producer_queue)
            /\ broker' = [broker EXCEPT !.published =
                              Append(@, PublishedMessage(Head(producer_queue), NodeIdentifier))]
    /\ UNCHANGED <<event_listeners, bound_event_names, consumer_queue, ack_queue, mainVars,
                   consumer, workers, handled, regLog, last, meshVars, coreVars>>

-----------------------------------------------------------------------------
(* The consumer sub-process *)

\* reply_to.replace('node.', ''): every 'node.' is removed, wherever it stands
RECURSIVE StripNode(_)
StripNode(key) ==
    IF Len(key) <= 1 THEN key
    ELSE IF Head(key) = "node" THEN StripNode(Tail(key))
    ELSE <<Head(key)>> \o StripNode(Tail(key))

\* re.match(r'^(.*)\.([^\.]+)$', name) and get_module_attr: the class of that name
ResolveClass(name) == [module |-> SubSeq(name, 1, Len(name) - 1), name |-> name[Len(name)]]

\* Variant: the attributes loaded from the body are set after the stamps
ConsumedEvent_PayloadLast(message) ==
    LET data  == Unpack(message.body)
        event == load(ResolveClass(data.event), data.data)
    IN  [event EXCEPT !.attrs = @ @@ [_source |-> StripNode(message.reply_to),
                                      _reply_to_uuid |-> message.correlation_id]]

\* on_consume(message): the event rebuilt by Event.load and stamped
ConsumedEvent(message) ==
    LET data  == Unpack(message.body)
        event == load(ResolveClass(data.event), data.data)
    IN  [event EXCEPT !.attrs = [_source |-> StripNode(message.reply_to),
                                 _reply_to_uuid |-> message.correlation_id] @@ @]

\* Messages the broker may deliver to this node: published by the peer B
InboundMessages ==
    {PublishedMessage([event |-> dump(NewEvent(Ping, u)), demographic |-> NodeIdentifier,
                       reply |-> None], "B") : u \in Uuids}

\* Variant: the consumer's loop does not look at the flag
ConsumerTest_IgnoresFlag ==
    /\ consumer = "loop"
    /\ consumer' = "acks"
    /\ UNCHANGED <<event_listeners, bound_event_names, producer_queue, consumer_queue,
                   ack_queue, mainVars, producer, workers, broker, handled, regLog, last,
                   meshVars, coreVars>>

\* while not self.processes_should_terminate.value
ConsumerTest ==
    /\ consumer = "loop"
    /\ consumer' = IF processes_should_terminate THEN "exited" ELSE "acks"
    /\ UNCHANGED <<event_listeners, bound_event_names, producer_queue, consumer_queue,
                   ack_queue, mainVars, producer, workers, broker, handled, regLog, last, meshVars, coreVars>>

\* Variant: one tag at most is acknowledged before the drain
ConsumerAck_OnePerRound ==
    /\ consumer = "acks"
    /\ consumer' = "drain"
    /\ IF ack_queue = <<>>
       THEN UNCHANGED <<ack_queue, broker>>
       ELSE /\ ack_queue' = Tail(ack_queue)
            /\ broker' = [broker EXCEPT !.acked = Append(@, Head(ack_queue))]
    /\ UNCHANGED <<event_listeners, bound_event_names, producer_queue, consumer_queue,
                   mainVars, producer, workers, handled, regLog, last, meshVars, coreVars>>

\* One round of the inner loop: ack_queue.get(block=False) and basic_ack, or queue.Empty
ConsumerAck ==
    /\ consumer = "acks"
    /\ IF ack_queue = <<>>
       THEN /\ consumer' = "drain"
            /\ UNCHANGED <<ack_queue, broker>>
       ELSE /\ consumer' = "acks"
            /\ ack_queue' = Tail(ack_queue)
            /\ broker' = [broker EXCEPT !.acked = Append(@, Head(ack_queue))]
    /\ UNCHANGED <<event_listeners, bound_event_names, producer_queue, consumer_queue,
                   mainVars, producer, workers, handled, regLog, last, meshVars, coreVars>>

\* Variant: on_consume puts the pair on the consumer queue twice
ConsumerDeliver_PutTwice(message) ==
    LET pair == [event |-> ConsumedEvent(message), delivery_tag |-> broker.delivered + 1]
    IN  /\ consumer = "drain"
        /\ broker.delivered < MaxDeliveries
        /\ consumer' = "loop"
        /\ broker' = [broker EXCEPT !.delivered = @ + 1]
        /\ consumer_queue' = Append(Append(consumer_queue, pair), pair)
        /\ UNCHANGED <<event_listeners, bound_event_names, producer_queue, ack_queue,
                       mainVars, producer, workers, handled, regLog, last, meshVars, coreVars>>

\* connection.drain_events(0.1) delivers a message to on_consume, which puts
\* [event, delivery_tag] on the consumer queue
ConsumerDeliver(message) ==
    /\ consumer = "drain"
    /\ broker.delivered < MaxDeliveries
    /\ consumer' = "loop"
    /\ broker' = [broker EXCEPT !.delivered = @ + 1]
    /\ consumer_queue' = Append(consumer_queue, [event |-> ConsumedEvent(message),
                                                 delivery_tag |-> broker.delivered + 1])
    /\ UNCHANGED <<event_listeners, bound_event_names, producer_queue, ack_queue, mainVars,
                   producer, workers, handled, regLog, last, meshVars, coreVars>>

\* Bytes that are no MessagePack document
Truncated == [truncated |-> TRUE]

\* The event classes a node can import
KnownClasses == {Ping, CommandEvent}

\* Messages on_consume cannot turn into an event: a body that does not
\* unpack, an event name without a dot, and the name of a class that the
\* node cannot import
BadMessages ==
    {[m EXCEPT !.body = Truncated] : m \in InboundMessages}
        \cup {[m EXCEPT !.body.event = <<"Ping">>] : m \in InboundMessages}
        \cup {[m EXCEPT !.body.event = <<"demo", "Missing">>] : m \in InboundMessages}

\* The error on_consume raises for a message, "none" when it raises none:
\* msgpack.loads on the body, .group on the result of re.match (None when the
\* name has no dot), get_module_attr on the module and the class
on_consume_error(message) ==
    IF DOMAIN message.body # {"event", "data"} THEN "UnpackException"
    ELSE IF Len(Unpack(message.body).event) < 2 THEN "AttributeError"
    ELSE IF ResolveClass(Unpack(message.body).event) \notin KnownClasses THEN "ImportError"
    ELSE "none"

\* connection.drain_events(0.1) hands a message of any kind to on_consume. An
\* error on_consume raises leaves drain_events; consumer_process_logic catches
\* socket.timeout only, so the error ends the consumer sub-process, with the
\* message delivered and not acknowledged.
ConsumerReceive(message) ==
    /\ consumer = "drain"
    /\ broker.delivered < MaxDeliveries
    /\ broker' = [broker EXCEPT !.delivered = @ + 1]
    /\ IF on_consume_error(message) = "none"
       THEN /\ consumer' = "loop"
            /\ consumer_queue' = Append(consumer_queue,
                                        [event |-> ConsumedEvent(message),
                                         delivery_tag |-> broker.delivered + 1])
       ELSE /\ consumer' = "crashed"
            /\ UNCHANGED consumer_queue
    /\ UNCHANGED <<event_listeners, bound_event_names, producer_queue, ack_queue, mainVars,
                   producer, workers, handled, regLog, last, meshVars, coreVars>>

\* connection.drain_events(0.1) times out: socket.timeout is passed over
ConsumerTimeout ==
    /\ consumer = "drain"
    /\ consumer' = "loop"
    /\ UNCHANGED <<event_listeners, bound_event_names, producer_queue, consumer_queue,
                   ack_queue, mainVars, producer, workers, broker, handled, regLog, last, meshVars, coreVars>>

-----------------------------------------------------------------------------
(* The worker pool: Worker.run around fetch_events *)

\* Variant: the tag is put whatever handle_event did
AfterHandle_AlwaysAck(result) == "ack"

\* What follows handle_event in fetch_events: the put of the delivery tag when
\* it returned; an error it raised is caught nowhere and ends the worker process
AfterHandle(result) == IF result.outcome = "returned" THEN "ack" ELSE "crashed"

\* while not process_should_terminate.value
WorkerTest(w) ==
    /\ workers[w].pc = "loop"
    /\ workers' = [workers EXCEPT ![w].pc = IF worker_terminate THEN "exited" ELSE "get"]
    /\ UNCHANGED <<event_listeners, bound_event_names, producer_queue, consumer_queue,
                   ack_queue, mainVars, producer, consumer, broker, handled, regLog, last, meshVars, coreVars>>

\* Variant: the worker reads the head of the consumer queue and leaves it there
WorkerGet_Peek(w) ==
    /\ workers[w].pc = "get"
    /\ workers' = [workers EXCEPT
                      ![w].pc = IF consumer_queue = <<>> THEN "loop" ELSE "handle",
                      ![w].item = IF consumer_queue = <<>> THEN @ ELSE Head(consumer_queue)]
    /\ UNCHANGED <<event_listeners, bound_event_names, producer_queue, consumer_queue,
                   ack_queue, mainVars, producer, consumer, broker, handled, regLog, last,
                   meshVars, coreVars>>

\* consumer_queue.get(block=True, timeout=0.1); queue.Empty is passed over
WorkerGet(w) ==
    /\ workers[w].pc = "get"
    /\ IF consumer_queue = <<>>
       THEN /\ workers' = [workers EXCEPT ![w].pc = "loop"]
            /\ UNCHANGED consumer_queue
       ELSE /\ workers' = [workers EXCEPT ![w].pc = "handle", ![w].item = Head(consumer_queue)]
            /\ consumer_queue' = Tail(consumer_queue)
    /\ UNCHANGED <<event_listeners, bound_event_names, producer_queue, ack_queue, mainVars,
                   producer, consumer, broker, handled, regLog, last, meshVars, coreVars>>

\* self.NITE.event_manager.handle_event(event_data[0]), on the worker's registry
WorkerHandle(w, raisers) ==
    LET result == HandleEvent(workers[w].registry, workers[w].item.event, raisers)
    IN  /\ workers[w].pc = "handle"
        /\ workers' = [workers EXCEPT ![w].pc = AfterHandle(result)]
        /\ handled' = handled \cup {[delivery_tag |-> workers[w].item.delivery_tag,
                                     outcome |-> result.outcome, calls |-> result.calls]}
        /\ UNCHANGED <<event_listeners, bound_event_names, producer_queue, consumer_queue,
                       ack_queue, mainVars, producer, consumer, broker, regLog, last, meshVars, coreVars>>

\* self.ack_queue.put(event_data[1])
WorkerAck(w) ==
    /\ workers[w].pc = "ack"
    /\ ack_queue' = Append(ack_queue, workers[w].item.delivery_tag)
    /\ workers' = [workers EXCEPT ![w].pc = "loop", ![w].item = NoItem]
    /\ UNCHANGED <<event_listeners, bound_event_names, producer_queue, consumer_queue,
                   mainVars, producer, consumer, broker, handled, regLog, last, meshVars, coreVars>>

-----------------------------------------------------------------------------
(* The supervisor's stop: NITECore.stop *)

WorkerEnded(w) == workers[w].pc \in {"exited", "crashed"}

\* Variant: stop ends the worker processes instead of waiting for them
Stop_Terminate ==
    /\ main = "running"
    /\ main' = "joining_workers"
    /\ worker_terminate' = TRUE
    /\ workers' = [w \in Workers |-> [workers[w] EXCEPT !.pc = "exited"]]
    /\ UNCHANGED <<event_listeners, bound_event_names, producer_queue, consumer_queue,
                   ack_queue, processes_should_terminate, producer, consumer, broker,
                   handled, regLog, last, meshVars, coreVars>>

\* WorkerManager.stop, first half: self.terminate.value = True
Stop ==
    /\ main = "running"
    /\ main' = "joining_workers"
    /\ worker_terminate' = TRUE
    /\ UNCHANGED <<event_listeners, bound_event_names, producer_queue, consumer_queue,
                   ack_queue, processes_should_terminate, producer, consumer, workers, broker,
                   handled, regLog, last, meshVars, coreVars>>

\* WorkerManager.stop, second half: process.join() of every worker
JoinWorkers ==
    /\ main = "joining_workers"
    /\ \A w \in Workers : WorkerEnded(w)
    /\ main' = "workers_joined"
    /\ UNCHANGED <<event_listeners, bound_event_names, producer_queue, consumer_queue,
                   ack_queue, processes_should_terminate, worker_terminate, producer, consumer,
                   workers, broker, handled, regLog, last, meshVars, coreVars>>

\* AmqpQueueConnector.close, first line: processes_should_terminate.value = True
ConnectorClose ==
    /\ main = "workers_joined"
    /\ main' = "closing"
    /\ processes_should_terminate' = TRUE
    /\ UNCHANGED <<event_listeners, bound_event_names, producer_queue, consumer_queue,
                   ack_queue, worker_terminate, producer, consumer, workers, broker, handled,
                   regLog, last, meshVars, coreVars>>

\* AmqpQueueConnector.close, the two joins
JoinProcesses ==
    /\ main = "closing"
    /\ producer = "exited"
    /\ consumer = "exited"
    /\ main' = "stopped"
    /\ UNCHANGED <<event_listeners, bound_event_names, producer_queue, consumer_queue,
                   ack_queue, processes_should_terminate, worker_terminate, producer, consumer,
                   workers, broker, handled, regLog, last, meshVars, coreVars>>

-----------------------------------------------------------------------------
(* A mesh of nodes around one broker: per node the connector's two         *)
(* sub-processes and one worker, with the broker routing between them      *)

MaxTriggers == 1

\* uuid.uuid4().hex: the uuid of the i-th event created in the mesh
MeshUuids == <<"u1", "u2", "u3">>

TopicExchange == <<BaseExchangeName, "_topic">>

FanoutExchange == <<BaseExchangeName, "_fanout">>

\* 'event.' + bound_event_name, for every bound event name of a node
EventQueues(n) == {<<"event">> \o peers[n].bound[i] : i \in 1..Len(peers[n].bound)}

\* The bindings create_channel makes for node n: the node queue on the topic
\* exchange under its own name, every event queue on the topic exchange under
\* its own name, and the node queue on the fanout exchange once per event name
ChannelBindings(n) ==
    {[exchange |-> TopicExchange, key |-> NodeKey(n), queue |-> NodeKey(n)]}
        \cup {[exchange |-> TopicExchange, key |-> q, queue |-> q] : q \in EventQueues(n)}
        \cup {[exchange |-> FanoutExchange, key |-> q, queue |-> NodeKey(n)] : q \in EventQueues(n)}

\* Variant: every exchange hands a message to all the queues bound to it
Route_IgnoringKeys(bindings, message) ==
    {b.queue : b \in {c \in bindings : c.exchange = message.exchange}}

\* The queues a message goes to: on the exchange declared 'topic' those bound
\* under its routing key (no binding key here holds a wildcard), on the one
\* declared 'fanout' every bound queue, whatever the key of the binding
Route(bindings, message) ==
    IF message.exchange = FanoutExchange
    THEN {b.queue : b \in {c \in bindings : c.exchange = FanoutExchange}}
    ELSE {b.queue : b \in {c \in bindings : /\ c.exchange = message.exchange
                                           /\ c.key = message.routing_key}}

\* The sub-processes of node n's connector are running
Up(n) == peers[n].started /\ ~peers[n].closed

\* AmqpQueueConnector.start on node n, up to the end of the consumer's
\* create_channel: exchanges, queues and bindings declared, consumers started
MeshStart(n) ==
    LET declared == EventQueues(n) \cup {NodeKey(n)}
    IN  /\ ~peers[n].started
        /\ peers' = [peers EXCEPT ![n].started = TRUE]
        /\ amqp' = [amqp EXCEPT
                       !.bindings = @ \cup ChannelBindings(n),
                       !.ready = [q \in (DOMAIN @) \cup declared |->
                                     IF q \in DOMAIN @ THEN @[q] ELSE <<>>],
                       !.consumers = @ \cup {[queue |-> q, node |-> n] : q \in declared}]
        /\ UNCHANGED <<nodeVars, coreVars, sent, runs>>

\* register_event_listener on node n, before or after its connector was
\* started: nothing in it looks at the connector's state. The sub-processes
\* were given the list of bound names as it was at start.
MeshRegister(n, event, listener, priority) ==
    /\ peers[n].regs <= MaxNodeRegs
    /\ peers' = [peers EXCEPT
                    ![n].registry = Registered(@, event, listener, priority),
                    ![n].bound = HookedNames(@, peers[n].registry, EventNameOf(event)),
                    ![n].regs = @ + 1]
    /\ UNCHANGED <<nodeVars, coreVars, amqp, sent, runs>>

\* trigger_event on node n with a demographic other than LOCAL, once the mesh
\* has formed: the triple is put on the node's producer queue
MeshTrigger(n, event, demographic, reply_to_event) ==
    /\ \A k \in MeshNodes : peers[k].started
    /\ Len(sent) < MaxTriggers
    /\ ~IsLocal(demographic)
    /\ peers' = [peers EXCEPT ![n].producer_queue =
                     Published(@, EventData(event), demographic, reply_to_event)]
    /\ sent' = Append(sent, [publisher |-> n, event |-> event, demographic |-> demographic,
                             reply |-> reply_to_event])
    /\ UNCHANGED <<nodeVars, coreVars, amqp, runs>>

\* One round of the producer's loop on node n with a triple in the queue: the
\* message is published and the broker routes it
MeshPublish(n) ==
    LET message == PublishedMessage(Head(peers[n].producer_queue), n)
        targets == Route(amqp.bindings, message)
    IN  /\ Up(n)
        /\ peers[n].producer_queue # <<>>
        /\ peers' = [peers EXCEPT ![n].producer_queue = Tail(@)]
        /\ amqp' = [amqp EXCEPT !.ready = [q \in DOMAIN @ |->
                                              IF q \in targets THEN Append(@[q], message)
                                              ELSE @[q]]]
        /\ UNCHANGED <<nodeVars, coreVars, sent, runs>>

\* drain_events on node n hands on_consume the message the broker delivers
\* from queue q to this one of the queue's consumers; it stays unacknowledged
MeshDeliver(q, n) ==
    LET message == Head(amqp.ready[q])
        tag     == peers[n].delivered + 1
    IN  /\ [queue |-> q, node |-> n] \in amqp.consumers
        /\ amqp.ready[q] # <<>>
        /\ amqp' = [amqp EXCEPT
                       !.ready[q] = Tail(@),
                       !.unacked = @ \cup {[node |-> n, delivery_tag |-> tag, queue |-> q,
                                            message |-> message]}]
        /\ peers' = [peers EXCEPT
                        ![n].delivered = tag,
                        ![n].consumer_queue = Append(@, [event |-> ConsumedEvent(message),
                                                         delivery_tag |-> tag])]
        /\ UNCHANGED <<nodeVars, coreVars, sent, runs>>

\* How many envelopes the nodes of the mesh hand on
MaxForwards == 2

\* An envelope as a listener holds it after its node received it from node A:
\* the instance on_consume built, with the stamps among its attributes
Held(event, reply_to_event) ==
    ConsumedEvent(PublishedMessage([event |-> dump(event), demographic |-> "B",
                                    reply |-> reply_to_event], "A"))

\* trigger_event on node n by a listener handing on an envelope: dump() puts
\* the whole __dict__ of the instance, stamps included, under 'data'
MeshForward(n, event, demographic, reply_to_event) ==
    /\ \A k \in MeshNodes : peers[k].started
    /\ Len(sent) < MaxForwards
    /\ ~IsLocal(demographic)
    /\ peers' = [peers EXCEPT ![n].producer_queue =
                     Published(@, EventData(event), demographic, reply_to_event)]
    /\ sent' = Append(sent, [publisher |-> n, event |-> event, demographic |-> demographic,
                             reply |-> reply_to_event])
    /\ UNCHANGED <<nodeVars, coreVars, amqp, runs>>

\* One round of fetch_events in the worker of node n with a pair in the
\* consumer queue: handle_event, then the put of the tag
MeshWorker(n, raisers) ==
    LET item   == Head(peers[n].consumer_queue)
        result == HandleEvent(peers[n].registry, item.event, raisers)
    IN  /\ peers[n].worker = "loop"
        /\ peers[n].consumer_queue # <<>>
        /\ runs' = runs \cup {[node |-> n, delivery_tag |-> item.delivery_tag,
                                uuid |-> item.event.attrs._uuid,
                                outcome |-> result.outcome, calls |-> result.calls]}
        /\ peers' = [peers EXCEPT
                        ![n].consumer_queue = Tail(@),
                        ![n].ack_queue = IF AfterHandle(result) = "ack"
                                         THEN Append(@, item.delivery_tag) ELSE @,
                        ![n].worker = IF AfterHandle(result) = "ack" THEN "loop" ELSE "crashed"]
        /\ UNCHANGED <<nodeVars, coreVars, amqp, sent>>

\* The consumer of node n takes a tag off the ack queue: basic_ack
MeshAck(n) ==
    LET tag == Head(peers[n].ack_queue)
    IN  /\ Up(n)
        /\ peers[n].ack_queue # <<>>
        /\ peers' = [peers EXCEPT ![n].ack_queue = Tail(@)]
        /\ amqp' = [amqp EXCEPT
                       !.unacked = {d \in @ : ~(d.node = n /\ d.delivery_tag = tag)},
                       !.acked = @ \cup {[node |-> n, delivery_tag |-> tag, queue |-> d.queue,
                                          uuid |-> d.message.message_id] :
                                             d \in {c \in amqp.unacked :
                                                       c.node = n /\ c.delivery_tag = tag}}]
        /\ UNCHANGED <<nodeVars, coreVars, sent, runs>>

\* The messages of a set of unacknowledged deliveries, in the order delivered
RECURSIVE InTagOrder(_)
InTagOrder(deliveries) ==
    IF deliveries = {} THEN <<>>
    ELSE LET first == CHOOSE d \in deliveries :
                          \A c \in deliveries : d.delivery_tag <= c.delivery_tag
         IN  <<first.message>> \o InTagOrder(deliveries \ {first})

\* The node n stops: its worker and its producer end, its consumer closes its
\* channel and connection. The broker cancels the channel's consumers, puts
\* the channel's unacknowledged messages back at the head of their queues, and
\* deletes the node queue (auto_delete) that has lost its only consumer.
MeshClose(n) ==
    LET mine   == {d \in amqp.unacked : d.node = n}
        remain == (DOMAIN amqp.ready) \ {NodeKey(n)}
    IN  /\ Up(n)
        /\ peers' = [peers EXCEPT ![n].closed = TRUE,
                                  ![n].worker = IF @ = "loop" THEN "exited" ELSE @]
        /\ amqp' = [amqp EXCEPT
                       !.consumers = {c \in @ : c.node # n},
                       !.unacked = @ \ mine,
                       !.bindings = {b \in @ : b.queue # NodeKey(n)},
                       !.ready = [q \in remain |->
                                     InTagOrder({d \in mine : d.queue = q}) \o @[q]]]
        /\ UNCHANGED <<nodeVars, coreVars, sent, runs>>

-----------------------------------------------------------------------------
(* The lifecycle supervisor: NITECore.__init__, start, stop, handle_signal *)

\* The signals register_signal_handlers installs handle_signal for
Signals == {"SIGTERM", "SIGINT", "SIGHUP"}

\* QueueConnectors: the queue types a connector exists for
QueueConnectors == {"amqp"}

\* Queue types a configuration may name
QueueTypes == {"amqp", "redis"}

\* The methods the classes of the worker pool and of the connector define.
\* The module manager, the configuration and the logging are collaborators
\* taken at the interface NITECore calls.
Methods ==
    [ worker_manager  |-> {"start", "stop"},
      queue_connector |-> {"initialize", "start", "close", "register_event_hook",
                           "publish_event", "fetch_events"} ]

\* The calls of NITECore.stop, in the order of the code
StopCalls ==
    << [object |-> "worker_manager",  method |-> "close",      state |-> "closed",
        step |-> "workers_closed"],
       [object |-> "module_manager",  method |-> "stop_all",   state |-> "stopped",
        step |-> "modules_stopped"],
       [object |-> "module_manager",  method |-> "unload_all", state |-> "unloaded",
        step |-> "modules_unloaded"],
       [object |-> "queue_connector", method |-> "close",      state |-> "closed",
        step |-> "connector_closed"] >>

\* self.<object>.<method>() finds the attribute set and the method defined
Callable(c, call) ==
    /\ c[call.object] # "unset"
    /\ call.object \in DOMAIN Methods => call.method \in Methods[call.object]

\* The calls made one after the other; the first that is not callable raises
\* AttributeError, which nothing in stop catches
RECURSIVE RunCalls(_, _)
RunCalls(c, calls) ==
    IF calls = <<>> THEN [c EXCEPT !.done = Append(@, "stopped")]
    ELSE IF ~Callable(c, Head(calls)) THEN [c EXCEPT !.error = "AttributeError"]
    ELSE RunCalls([c EXCEPT ![Head(calls).object] = Head(calls).state,
                            !.done = Append(@, Head(calls).step)],
                  Tail(calls))

\* NITECore.stop
stop(c) ==
    RunCalls([c EXCEPT !.stopping = TRUE, !.exit_handler = FALSE, !.done = Append(@, "stop")],
             StopCalls)

\* NITECore.handle_signal(sig, frame): stop, and start again when sig is
\* signal.SIGHUP. identical is what the identity test `sig is signal.SIGHUP`
\* gives for a SIGHUP (it depends on the interpreter: an int against an
\* enumeration member, or two small ints). An error leaves the handler and
\* ends the main process; a handler that returns in the loop lets the loop
\* see _stopping and start return.
handle_signal(c, sig, identical) ==
    LET stopped == stop([c EXCEPT !.signal = sig])
    IN  IF stopped.error # "none" THEN [stopped EXCEPT !.pc = "dead"]
        ELSE IF sig = "SIGHUP" /\ identical
             THEN [stopped EXCEPT !.pc = "start"]
        ELSE IF c.pc = "loop" THEN [stopped EXCEPT !.pc = "exited"]
        ELSE stopped

\* NITECore(debug, daemonize): the fields, the signal handlers, then start()
Construct(debug, daemonize) ==
    /\ core.pc = "new"
    /\ core' = [core EXCEPT !.pc = "start", !.debug = debug, !.daemonize = daemonize]
    /\ UNCHANGED <<nodeVars, meshVars>>

\* start: _stopping = False and atexit.register(self.stop)
CoreStart ==
    /\ core.pc = "start"
    /\ core' = [core EXCEPT !.pc = "configuration", !.stopping = FALSE,
                            !.exit_handler = TRUE, !.done = Append(@, "start")]
    /\ UNCHANGED <<nodeVars, meshVars>>

\* start: ConfigurationManager.load
LoadConfiguration(queue_type) ==
    /\ core.pc = "configuration"
    /\ core' = [core EXCEPT !.pc = "logging", !.queue_type = queue_type,
                            !.done = Append(@, "configuration")]
    /\ UNCHANGED <<nodeVars, meshVars>>

\* start: configure_logging
ConfigureLogging ==
    /\ core.pc = "logging"
    /\ core' = [core EXCEPT !.pc = "connector", !.done = Append(@, "logging")]
    /\ UNCHANGED <<nodeVars, meshVars>>

\* start: self._queue_connector = create_connector(self), which instantiates the
\* connector and calls its initialize: no bound event, three empty queues, the
\* flag down. A queue type without connector raises.
CreateConnector ==
    /\ core.pc = "connector"
    /\ IF core.queue_type \notin QueueConnectors
       THEN /\ core' = [core EXCEPT !.pc = "dead", !.error = "Exception"]
            /\ UNCHANGED <<bound_event_names, producer_queue, consumer_queue, ack_queue,
                           processes_should_terminate>>
       ELSE /\ core' = [core EXCEPT !.pc = "event_manager", !.queue_connector = "initialized",
                                    !.done = Append(@, "connector_initialize")]
            /\ bound_event_names' = <<>>
            /\ producer_queue' = <<>>
            /\ consumer_queue' = <<>>
            /\ ack_queue' = <<>>
            /\ processes_should_terminate' = FALSE
    /\ UNCHANGED <<event_listeners, worker_terminate, main, producer, consumer, workers,
                   broker, handled, regLog, last, meshVars>>

\* start: self._event_manager = EventManager(self), with an empty registry
CreateEventManager ==
    /\ core.pc = "event_manager"
    /\ core' = [core EXCEPT !.pc = "module_manager", !.event_manager = "created",
                            !.done = Append(@, "event_manager")]
    /\ event_listeners' = <<>>
    /\ UNCHANGED <<bound_event_names, producer_queue, consumer_queue, ack_queue, mainVars,
                   producer, consumer, workers, broker, handled, regLog, last, meshVars>>

\* start: ModuleManager(self) and load_all()
LoadModules ==
    /\ core.pc = "module_manager"
    /\ core' = [core EXCEPT !.pc = "modules", !.module_manager = "loaded",
                            !.done = Append(@, "modules_loaded")]
    /\ UNCHANGED <<nodeVars, meshVars>>

\* start_all(): a module's start registers a listener
ModuleRegister(event, listener, priority) ==
    /\ core.pc = "modules"
    /\ Len(regLog) < MaxNodeRegs
    /\ RegisterListener(event, listener, priority)
    /\ core' = [core EXCEPT !.done = Append(@, "register")]
    /\ UNCHANGED <<mainVars, procVars, producer_queue, meshVars>>

\* start_all() returns
ModulesStarted ==
    /\ core.pc = "modules"
    /\ core' = [core EXCEPT !.pc = "connector_start", !.module_manager = "started",
                            !.done = Append(@, "modules_started")]
    /\ UNCHANGED <<nodeVars, meshVars>>

\* start: self.queue_connector.start()
CoreConnectorStart ==
    /\ core.pc = "connector_start"
    /\ core' = [core EXCEPT !.pc = "worker_manager", !.queue_connector = "started",
                            !.done = Append(@, "connector_start")]
    /\ producer' = "loop"
    /\ consumer' = "loop"
    /\ UNCHANGED <<event_listeners, bound_event_names, producer_queue, consumer_queue,
                   ack_queue, mainVars, workers, broker, handled, regLog, last, meshVars>>

\* start: self._worker_manager = WorkerManager(self). The constructor keeps its
\* argument and the worker count; no process is started here, and start makes
\* no other call on the worker manager before it enters its loop.
CreateWorkerManager ==
    /\ core.pc = "worker_manager"
    /\ core' = [core EXCEPT !.pc = "loop", !.worker_manager = "created",
                            !.done = Append(@, "worker_manager")]
    /\ UNCHANGED <<nodeVars, meshVars>>

\* A signal arrives while the main process is alive: handle_signal runs on top
\* of whatever the main process is doing. close sets the connector's flag.
Signal(sig, identical) ==
    /\ core.pc \notin {"new", "dead", "exited"}
    /\ core' = handle_signal(core, sig, identical)
    /\ processes_should_terminate' =
           IF core'.queue_connector = "closed" THEN TRUE ELSE processes_should_terminate
    /\ UNCHANGED <<event_listeners, bound_event_names, producer_queue, consumer_queue,
                   ack_queue, worker_terminate, main, producer, consumer, workers, broker,
                   handled, regLog, last, meshVars>>

\* How many calls of handle_signal may be under way at once
MaxHandlers == 2

\* A signal arrives and the interpreter calls handle_signal between two
\* instructions of the main process, those of a handle_signal already under
\* way included: what was running waits, stop is entered, sets _stopping and
\* unregisters the exit handler. Nothing tests _stopping before.
HandlerEnter(sig, identical) ==
    /\ core.pc \notin {"new", "dead", "exited"}
    /\ Len(core.handlers) < MaxHandlers
    /\ core' = [core EXCEPT !.pc = "handler", !.signal = sig, !.stopping = TRUE,
                            !.exit_handler = FALSE, !.done = Append(@, "stop"),
                            !.handlers = Append(@, [sig |-> sig, identical |-> identical,
                                                    pc |-> core.pc])]
    /\ UNCHANGED <<nodeVars, meshVars>>

\* The innermost handle_signal goes on to its end: the calls of stop, then
\* start when sig is signal.SIGHUP, and what it interrupted goes on. An error
\* leaves every handler under way and ends the main process.
HandlerReturn ==
    LET frame   == core.handlers[Len(core.handlers)]
        rest    == SubSeq(core.handlers, 1, Len(core.handlers) - 1)
        stopped == RunCalls(core, StopCalls)
    IN  /\ core.pc = "handler"
        /\ core' = IF stopped.error # "none"
                   THEN [stopped EXCEPT !.pc = "dead", !.handlers = <<>>]
                   ELSE IF frame.sig = "SIGHUP" /\ frame.identical
                        THEN [stopped EXCEPT !.pc = "start", !.handlers = rest]
                   ELSE IF frame.pc = "loop"
                        THEN [stopped EXCEPT !.pc = "exited", !.handlers = rest]
                   ELSE [stopped EXCEPT !.pc = frame.pc, !.handlers = rest]
        /\ processes_should_terminate' =
               IF core'.queue_connector = "closed" THEN TRUE ELSE processes_should_terminate
        /\ UNCHANGED <<event_listeners, bound_event_names, producer_queue, consumer_queue,
                       ack_queue, worker_terminate, main, producer, consumer, workers,
                       broker, handled, regLog, last, meshVars>>

\* The interpreter ends and runs the exit handlers still registered: stop, when
\* start registered it and no stop has unregistered it. atexit reports an error
\* of a handler and goes on.
AtExit ==
    LET ending == [core EXCEPT !.done = Append(@, "atexit")]
    IN  /\ core.pc \in {"dead", "exited"}
        /\ \A i \in 1..Len(core.done) : core.done[i] # "atexit"
        /\ core' = IF core.exit_handler THEN stop(ending) ELSE ending
        /\ processes_should_terminate' =
               IF core'.queue_connector = "closed" THEN TRUE ELSE processes_should_terminate
        /\ UNCHANGED <<event_listeners, bound_event_names, producer_queue, consumer_queue,
                       ack_queue, worker_terminate, main, producer, consumer, workers,
                       broker, handled, regLog, last, meshVars>>

-----------------------------------------------------------------------------
(* SIGINT in the sub-processes *)

\* Variant: only the workers mask SIGINT; the connector's sub-processes keep
\* the handler they inherited from the main process
SigintDisposition_WorkersOnly(kind) == IF kind = "worker" THEN "SIG_IGN" ELSE "inherited"

\* What a sub-process does with SIGINT once it runs: Worker.run sets SIG_IGN
\* with signal.signal, the producer and the consumer through ignore_signals()
SigintDisposition(kind) ==
    IF kind = "worker" THEN "SIG_IGN"
    ELSE IF kind \in {"producer", "consumer"} THEN "SIG_IGN"
    ELSE "inherited"

\* The position of a sub-process after a SIGINT: a process that does not run
\* gets none, one that ignores it goes on, any other is interrupted
AfterSigint(kind, pc) ==
    IF pc \in {"new", "exited", "crashed", "interrupted"} THEN pc
    ELSE IF SigintDisposition(kind) = "SIG_IGN" THEN pc
    ELSE "interrupted"

\* Ctrl-C: SIGINT goes to every process of the node. The main process runs
\* handle_signal; each sub-process does what its disposition says.
Sigint ==
    /\ Live
    /\ last' = [NoCall EXCEPT !.op = "SIGINT", !.live = Live]
    /\ producer' = AfterSigint("producer", producer)
    /\ consumer' = AfterSigint("consumer", consumer)
    /\ workers' = [w \in Workers |->
                      [workers[w] EXCEPT !.pc = AfterSigint("worker", workers[w].pc)]]
    /\ UNCHANGED <<event_listeners, bound_event_names, producer_queue, consumer_queue,
                   ack_queue, mainVars, broker, handled, regLog, meshVars, coreVars>>

-----------------------------------------------------------------------------
(* Specifications *)

Demographics == EventDemographic \cup NodeIds

Replies == {None} \cup {NewEvent(Ping, u) : u \in Uuids}

\* The dispatch core as the main process drives it
Next ==
    \/ \E i \in RegistrationInputs : Register(i[1], i[2], i[3])
    \/ \E r \in RaiserSets : Trigger(NewCommandEvent("line"), "LOCAL", None, r)
    \/ \E r \in RaiserSets : Command(r)
    \/ ConnectorStart
    \/ WorkersStart

Spec == Init /\ [][Next]_vars

\* The publish path: triggers of the main process and the producer sub-process
NextProducer ==
    \/ \E e \in ProducerEventIdentifiers : RegisterAtStartup(e, "L1", NoPriority)
    \/ \E u \in Uuids, d \in Demographics, y \in Replies :
            Trigger(NewEvent(Ping, u), d, y, {})
    \/ ConnectorStart
    \/ WorkersStart
    \/ ProducerTest
    \/ ProducerGet

SpecProducer == Init /\ [][NextProducer]_vars

\* The consume path from startup to stop: consumer, workers and supervisor
NextNode ==
    \/ \E e \in NodeEventIdentifiers, l \in Listeners : RegisterAtStartup(e, l, NoPriority)
    \/ ConnectorStart
    \/ WorkersStart
    \/ ProducerTest
    \/ ProducerGet
    \/ ConsumerTest
    \/ ConsumerAck
    \/ \E m \in InboundMessages : ConsumerDeliver(m)
    \/ ConsumerTimeout
    \/ \E w \in Workers : WorkerTest(w)
    \/ \E w \in Workers : WorkerGet(w)
    \/ \E w \in Workers, r \in RaiserSets : WorkerHandle(w, r)
    \/ \E w \in Workers : WorkerAck(w)
    \/ Stop
    \/ JoinWorkers
    \/ ConnectorClose
    \/ JoinProcesses

SpecNode == Init /\ [][NextNode]_vars

\* The consume path with every process scheduled fairly: a sub-process that
\* can take a step of its loop takes it (each wait times out after 0.1 s),
\* and a join returns once the processes it waits for have ended. Nothing
\* obliges the supervisor to stop the node.
ProducerStep == ProducerTest \/ ProducerGet

ConsumerStep ==
    \/ ConsumerTest
    \/ ConsumerAck
    \/ ConsumerTimeout
    \/ \E m \in InboundMessages : ConsumerDeliver(m)

WorkerStep(w) ==
    \/ WorkerTest(w)
    \/ WorkerGet(w)
    \/ \E r \in RaiserSets : WorkerHandle(w, r)
    \/ WorkerAck(w)

\* The producer path with the producer scheduled fairly: its get times out
\* after 0.1 s, so a producer that can take a step of its loop takes it
SpecProducerFair == Init /\ [][NextProducer]_vars /\ WF_vars(ProducerStep)

\* NITECore.stop once begun: the joins and the call of close between them
StopStep == JoinWorkers \/ ConnectorClose \/ JoinProcesses

SpecNodeFair ==
    /\ Init
    /\ [][NextNode]_vars
    /\ WF_vars(ProducerStep)
    /\ WF_vars(ConsumerStep)
    /\ \A w \in Workers : WF_vars(WorkerStep(w))
    /\ WF_vars(StopStep)

\* Who triggers in the mesh, with which demographic and which reply target
Publishers == {"A", "node.C"}

MeshDemographics == Demographics \ {"LOCAL"}

MeshReplies == {None, NewEvent(Ping, "r1")}

MeshRaiserSets == {{}, {"L1"}}

\* The i-th event created in the mesh
MeshEvent(i) == WithPayload(NewEvent(Ping, MeshUuids[i]), [n |-> 1, items |-> <<"a", "b">>])

MeshQueues == {NodeKey(n) : n \in MeshNodes} \cup {<<"event", "demo", "Ping">>,
                                                    <<"event", "nite", "command", "CommandEvent">>}

\* The mesh: three started nodes that trigger, publish, consume and handle
NextMesh ==
    \/ \E n \in MeshNodes : MeshStart(n)
    \/ \E n \in Publishers, d \in MeshDemographics, y \in MeshReplies :
            MeshTrigger(n, MeshEvent(Len(sent) + 1), d, y)
    \/ \E n \in MeshNodes : MeshPublish(n)
    \/ \E q \in MeshQueues, n \in MeshNodes : MeshDeliver(q, n)
    \/ \E n \in MeshNodes, r \in MeshRaiserSets : MeshWorker(n, r)
    \/ \E n \in MeshNodes : MeshAck(n)

SpecMesh == Init /\ [][NextMesh]_vars

\* The envelopes handed on: a fresh one, and the same one as a node holds it
\* after receiving it, with or without a reply target
ForwardedEvents ==
    {NewEvent(Ping, "u1")} \cup {Held(NewEvent(Ping, "u1"), y) : y \in MeshReplies}

\* The mesh with nodes B and node.C handing envelopes on to node A
NextMeshForward ==
    \/ \E n \in MeshNodes : MeshStart(n)
    \/ \E n \in {"B", "node.C"}, e \in ForwardedEvents, y \in MeshReplies :
            MeshForward(n, e, "A", y)
    \/ \E n \in MeshNodes : MeshPublish(n)
    \/ \E q \in MeshQueues, n \in MeshNodes : MeshDeliver(q, n)

SpecMeshForward == Init /\ [][NextMeshForward]_vars

\* The mesh with modules that go on registering listeners: registrations,
\* starts, and the way of a triggered event up to its delivery
NextMeshLate ==
    \/ \E n \in MeshNodes, e \in {ClassId(Ping), ClassId(CommandEvent)} :
            MeshRegister(n, e, "L2", NoPriority)
    \/ \E n \in MeshNodes : MeshStart(n)
    \/ \E n \in Publishers, d \in MeshDemographics, y \in MeshReplies :
            MeshTrigger(n, MeshEvent(Len(sent) + 1), d, y)
    \/ \E n \in MeshNodes : MeshPublish(n)
    \/ \E q \in MeshQueues, n \in MeshNodes : MeshDeliver(q, n)

SpecMeshLate == Init /\ [][NextMeshLate]_vars

\* The mesh with listeners that do not raise. Every sub-process keeps looping (its waits time out after 0.1 s)
\* and the broker keeps delivering what is ready in a queue with a consumer.
NextMeshFair ==
    \/ \E n \in MeshNodes : MeshStart(n)
    \/ \E n \in Publishers, d \in MeshDemographics :
            MeshTrigger(n, MeshEvent(Len(sent) + 1), d, None)
    \/ \E n \in MeshNodes : MeshPublish(n)
    \/ \E q \in MeshQueues, n \in MeshNodes : MeshDeliver(q, n)
    \/ \E n \in MeshNodes : MeshWorker(n, {})
    \/ \E n \in MeshNodes : MeshAck(n)

\* A step of one of the processes of node n, the broker's delivery to its
\* consumer included
PeerStep(n, raiser_sets) ==
    \/ MeshPublish(n)
    \/ \E q \in MeshQueues : MeshDeliver(q, n)
    \/ \E r \in raiser_sets : MeshWorker(n, r)
    \/ MeshAck(n)

SpecMeshFair ==
    /\ Init
    /\ [][NextMeshFair]_vars
    /\ \A n \in MeshNodes : WF_vars(PeerStep(n, {{}}))

\* The main process from construction on, with the connector's two
\* sub-processes once they are started
NextCore ==
    \/ \E debug \in BOOLEAN, daemonize \in BOOLEAN : Construct(debug, daemonize)
    \/ CoreStart
    \/ \E t \in QueueTypes : LoadConfiguration(t)
    \/ ConfigureLogging
    \/ CreateConnector
    \/ CreateEventManager
    \/ LoadModules
    \/ \E e \in NodeEventIdentifiers, l \in Listeners : ModuleRegister(e, l, NoPriority)
    \/ ModulesStarted
    \/ CoreConnectorStart
    \/ CreateWorkerManager
    \/ \E sig \in Signals, identical \in BOOLEAN : Signal(sig, identical)
    \/ ProducerTest
    \/ ProducerGet
    \/ ConsumerTest
    \/ ConsumerAck
    \/ \E m \in InboundMessages : ConsumerDeliver(m)
    \/ ConsumerTimeout

SpecCore == Init /\ [][NextCore]_vars

\* The main process with signals arriving at any instruction, the
\* instructions of a handler included, up to the end of the interpreter. The
\* main flow waits while a handler is under way.
NextCoreSignals ==
    \/ \E debug \in BOOLEAN, daemonize \in BOOLEAN : Construct(debug, daemonize)
    \/ CoreStart
    \/ \E t \in QueueTypes : LoadConfiguration(t)
    \/ ConfigureLogging
    \/ CreateConnector
    \/ CreateEventManager
    \/ LoadModules
    \/ \E e \in NodeEventIdentifiers, l \in Listeners : ModuleRegister(e, l, NoPriority)
    \/ ModulesStarted
    \/ CoreConnectorStart
    \/ CreateWorkerManager
    \/ \E sig \in Signals, identical \in BOOLEAN : HandlerEnter(sig, identical)
    \/ HandlerReturn
    \/ AtExit

SpecCoreSignals == Init /\ [][NextCoreSignals]_vars

\* Register calls for one event given as its class and as its dotted name, and
\* for a second name, with and without a priority
HookInputs ==
    {ClassId(Ping), StringId(QualifiedName(Ping)), StringId(<<"builtins", "dict">>)}
        \X Listeners \X {NoPriority, HIGH}

NextHooks == \E i \in HookInputs : Register(i[1], i[2], i[3])

\* The consume path of the node with SIGINT arriving at any moment
NextSigint == NextNode \/ Sigint

SpecSigint == Init /\ [][NextSigint]_vars

SpecHooks == Init /\ [][NextHooks]_vars

\* Register calls for two event names with every priority and with none
PriorityInputs ==
    {ClassId(CommandEvent), StringId(<<"builtins", "dict">>)}
        \X Listeners \X (EventPriority \cup {NoPriority})

NextPriorities == \E i \in PriorityInputs : Register(i[1], i[2], i[3])

SpecPriorities == Init /\ [][NextPriorities]_vars

\* The consume path with messages of any kind coming from the broker
NextInbound ==
    \/ \E e \in NodeEventIdentifiers, l \in Listeners : RegisterAtStartup(e, l, NoPriority)
    \/ ConnectorStart
    \/ WorkersStart
    \/ ConsumerTest
    \/ ConsumerAck
    \/ \E m \in InboundMessages \cup BadMessages : ConsumerReceive(m)
    \/ ConsumerTimeout
    \/ \E w \in Workers : WorkerTest(w)
    \/ \E w \in Workers : WorkerGet(w)
    \/ \E w \in Workers, r \in RaiserSets : WorkerHandle(w, r)
    \/ \E w \in Workers : WorkerAck(w)

SpecInbound == Init /\ [][NextInbound]_vars

-----------------------------------------------------------------------------
(* What the history says should happen *)

\* The listeners of the Register calls made for name with priority p, in call order
RECURSIVE RegisteredWith(_, _, _)
RegisteredWith(log, name, p) ==
    IF log = <<>> THEN <<>>
    ELSE (IF EventNameOf(Head(log).event) = name /\ PriorityOf(Head(log).priority) = p
          THEN <<Head(log).listener>> ELSE <<>>) \o RegisteredWith(Tail(log), name, p)

\* Priority order HIGHEST, HIGH, MEDIUM, LOW, LOWEST, then registration order
PriorityThenRegistration(name) ==
    RegisteredWith(regLog, name, HIGHEST) \o RegisteredWith(regLog, name, HIGH)
        \o RegisteredWith(regLog, name, MEDIUM) \o RegisteredWith(regLog, name, LOW)
        \o RegisteredWith(regLog, name, LOWEST)

\* The Register calls made for name
RegistrationsFor(name) == {i \in 1..Len(regLog) : EventNameOf(regLog[i].event) = name}

IsPrefix(s, t) == Len(s) <= Len(t) /\ SubSeq(t, 1, Len(s)) = s

\* How often listener l occurs in the sequence s
Count(s, l) == Cardinality({i \in 1..Len(s) : s[i] = l})

\* The most recent call of the main process ran Handle
HandleRan == last.op \in {"trigger", "command"} /\ last.name # <<>>

-----------------------------------------------------------------------------
(* Claims on the dispatch core, specification Spec *)

\* C1: Handle invokes the listeners registered for the envelope's event name in
\* priority order HIGHEST, HIGH, MEDIUM, LOW, LOWEST and, within one priority, in
\* the order of the Register calls, whatever order the priorities were
\* registered in: a Handle that returns has called exactly that sequence, and one
\* that a listener ended has called a prefix of it.
C1_PriorityThenRegistrationOrder ==
    HandleRan =>
        /\ last.outcome = "returned" => last.calls = PriorityThenRegistration(last.name)
        /\ IsPrefix(last.calls, PriorityThenRegistration(last.name))

\* A Handle that returned after calling two listeners, the one of the higher
\* priority registered after the one of the lower priority
C1_Witness ==
    /\ HandleRan
    /\ last.outcome = "returned"
    /\ Len(last.calls) = 2
    /\ \E i, j \in RegistrationsFor(last.name) :
          i < j /\ PriorityOf(regLog[j].priority) < PriorityOf(regLog[i].priority)

\* C2: after Trigger(instance of E, LOCAL) has completed with no listener
\* raising, every listener registered (once) for E has been invoked exactly once.
C2_LocalTriggerInvokesEachListenerOnce ==
    (last.op = "trigger" /\ last.demographic = "LOCAL" /\ last.outcome = "returned") =>
        \A l \in Listeners :
            Count(PriorityThenRegistration(last.event), l) = 1 => Count(last.calls, l) = 1

\* C7: Handle of an envelope whose event name has no entry in the registry fails
\* with NO_LISTENERS and invokes no listener.
C7_NoListenersFailsAndInvokesNone ==
    (HandleRan /\ last.name \notin DOMAIN event_listeners) =>
        last.outcome = "NO_LISTENERS" /\ last.calls = <<>>

\* A Handle of a name without an entry, in a registry that has other entries
C7_Witness ==
    /\ HandleRan
    /\ last.name \notin DOMAIN event_listeners
    /\ DOMAIN event_listeners # {}

\* C8: when a listener raises during Handle, the Handle fails, the listeners
\* before it in priority-then-registration order have each been invoked once, and
\* no listener after it is invoked; a Handle fails this way exactly when one of
\* the listeners registered for the name raises.
C8_ListenerFailureStopsHandle ==
    LET order == PriorityThenRegistration(last.name)
    IN  (HandleRan /\ last.name \in DOMAIN event_listeners) =>
            IF \E i \in 1..Len(order) : order[i] \in last.raisers
            THEN /\ last.outcome = "LISTENER_FAILED"
                 /\ last.calls # <<>>
                 /\ IsPrefix(last.calls, order)
                 /\ last.calls[Len(last.calls)] \in last.raisers
                 /\ \A i \in 1..(Len(last.calls) - 1) : last.calls[i] \notin last.raisers
            ELSE last.outcome = "returned"

\* A Handle ended by its first listener, with a second listener left uncalled
C8_Witness ==
    /\ HandleRan
    /\ last.outcome = "LISTENER_FAILED"
    /\ Len(last.calls) = 1
    /\ Len(PriorityThenRegistration(last.name)) = 2

\* C9: Handle returns an explicit success/failure signal to its caller: it
\* returns true when every listener completed and false otherwise.
C9_HandleReturnsExplicitSignal ==
    HandleRan =>
        /\ last.value \in {"True", "False"}
        /\ last.value = "True" <=> last.outcome = "returned"

\* C10: Register after the connector has been started fails with ALREADY_LIVE,
\* and the registry is the one the workers were started with.
C10_RegisterAfterStartFails ==
    /\ (last.op = "register" /\ last.live) => last.outcome = "ALREADY_LIVE"
    /\ main = "running" => \A w \in Workers : workers[w].registry = event_listeners

-----------------------------------------------------------------------------
(* Claims on the publish path, specification SpecProducer *)

\* A step of trigger_event: the main process made a call, the producer did not move
TriggerStep ==
    /\ last'.op = "trigger"
    /\ last' # last \/ producer_queue' # producer_queue
    /\ producer' = producer

\* C3: Trigger with demographic LOCAL leaves the producer queue unchanged;
\* Trigger with any other demographic appends exactly one triple, that of the
\* event and the demographic, to the producer queue and runs no Handle in the
\* calling process.
C3_TriggerFrameEffect ==
    [][TriggerStep =>
          IF last'.demographic = "LOCAL"
          THEN producer_queue' = producer_queue
          ELSE /\ Len(producer_queue') = Len(producer_queue) + 1
               /\ SubSeq(producer_queue', 1, Len(producer_queue)) = producer_queue
               /\ producer_queue'[Len(producer_queue')].demographic = last'.demographic
               /\ producer_queue'[Len(producer_queue')].event.event = last'.event
               /\ last'.name = <<>>
               /\ last'.calls = <<>>]_vars

\* Two triples queued, the second by a Trigger addressed to the node B, with a
\* listener registered for the name a local Handle would look up
C3_Witness ==
    /\ last.op = "trigger"
    /\ last.demographic = "B"
    /\ Len(producer_queue) = 2
    /\ producer_queue[2].demographic = "B"
    /\ <<"builtins", "dict">> \in DOMAIN event_listeners

\* A step of the producer that takes a triple off the producer queue
DequeueStep == Len(producer_queue') < Len(producer_queue)

\* The message a step has added at the end of the broker's published messages
NewMessage == broker'.published[Len(broker'.published)]

\* C11: for every triple the producer dequeues, the publish target follows the
\* demographic table: GLOBAL_SINGLE goes to <base>_topic with routing key
\* event.<event-name>, GLOBAL_ALL to <base>_fanout with routing key
\* event.<event-name>, and a demographic that is no member of the enum is taken
\* for a node identifier and goes to <base>_topic with routing key node.<id>.
C11_PublishTargetFollowsTable ==
    [][DequeueStep =>
          LET triple == Head(producer_queue)
              name   == triple.event.event
          IN  /\ Len(broker'.published) = Len(broker.published) + 1
              /\ triple.demographic = "GLOBAL_SINGLE" =>
                    /\ NewMessage.exchange = <<BaseExchangeName, "_topic">>
                    /\ NewMessage.routing_key = <<"event">> \o name
              /\ triple.demographic = "GLOBAL_ALL" =>
                    /\ NewMessage.exchange = <<BaseExchangeName, "_fanout">>
                    /\ NewMessage.routing_key = <<"event">> \o name
              /\ triple.demographic \notin EventDemographic =>
                    /\ NewMessage.exchange = <<BaseExchangeName, "_topic">>
                    /\ NewMessage.routing_key = <<"node", triple.demographic>>]_vars

\* One message published to the fanout exchange and one addressed to the node B
C11_Witness ==
    /\ \E i \in 1..Len(broker.published) :
          /\ broker.published[i].exchange = <<BaseExchangeName, "_fanout">>
          /\ broker.published[i].routing_key = <<"event", "demo", "Ping">>
    /\ \E i \in 1..Len(broker.published) :
          /\ broker.published[i].exchange = <<BaseExchangeName, "_topic">>
          /\ broker.published[i].routing_key = <<"node", "B">>

-----------------------------------------------------------------------------
(* Claims on the consume path, specification SpecNode *)

Successes == {h \in handled : h.outcome = "returned"}

Failures == {h \in handled : h.outcome # "returned"}

Tags(s) == {s[i] : i \in 1..Len(s)}

\* C4: when the node has closed, the number of broker acks the consumer issued
\* equals the number of Handle runs of workers that returned successfully.
C4_AcksEqualSuccessfulHandles ==
    main = "stopped" => Len(broker.acked) = Cardinality(Successes)

\* C5: a delivery tag is put on the ack queue (and acknowledged) only after the
\* Handle of its envelope has returned successfully; the tag of a failed Handle
\* is never on the ack queue and never acknowledged.
C5_AckOnlyAfterSuccess ==
    /\ \A t \in Tags(ack_queue) \cup Tags(broker.acked) :
          \E h \in Successes : h.delivery_tag = t
    /\ \A w \in Workers :
          workers[w].pc = "ack" => \E h \in Successes : h.delivery_tag = workers[w].item.delivery_tag
    /\ \A h \in Failures : h.delivery_tag \notin Tags(ack_queue) \cup Tags(broker.acked)

\* One delivery acknowledged and another whose Handle failed
C5_Witness ==
    /\ broker.acked # <<>>
    /\ Failures # {}

\* C6: a Handle failure does not end the worker: a worker leaves its loop only
\* when the termination flag is set.
C6_WorkerSurvivesHandleFailure ==
    \A w \in Workers : WorkerEnded(w) => worker_terminate

\* The listeners that raise when the envelope at the head of node n's consumer
\* queue is handled: the listener may raise the first time it is called for
\* an envelope, and does not raise when called for it again
FirstCallRaisers(n) ==
    IF peers[n].consumer_queue = <<>> THEN {{}}
    ELSE IF \E r \in runs : /\ r.uuid = Head(peers[n].consumer_queue).event.attrs._uuid
                             /\ r.outcome = "LISTENER_FAILED"
         THEN {{}}
         ELSE MeshRaiserSets

\* The mesh with a listener that may raise on its first call for an envelope,
\* and with nodes that may stop. The sub-processes and the broker are
\* scheduled fairly; nothing obliges a node to stop.
NextMeshRetry ==
    \/ \E n \in MeshNodes : MeshStart(n)
    \/ \E n \in Publishers, d \in MeshDemographics :
            MeshTrigger(n, MeshEvent(Len(sent) + 1), d, None)
    \/ \E n \in MeshNodes : MeshPublish(n)
    \/ \E q \in MeshQueues, n \in MeshNodes : MeshDeliver(q, n)
    \/ \E n \in MeshNodes : \E r \in FirstCallRaisers(n) : MeshWorker(n, r)
    \/ \E n \in MeshNodes : MeshAck(n)
    \/ \E n \in MeshNodes : MeshClose(n)

SpecMeshRetry ==
    /\ Init
    /\ [][NextMeshRetry]_vars
    /\ \A n \in MeshNodes : WF_vars(PeerStep(n, FirstCallRaisers(n)))

-----------------------------------------------------------------------------
(* Claims on the mesh, specification SpecMesh *)

\* The uuid of the event of the i-th Trigger of the mesh
UuidOf(i) == sent[i].event.attrs._uuid

\* The Handle runs and the broker acks of the envelope with uuid u
RunsOf(u) == {r \in runs : r.uuid = u}

AcksOf(u) == {a \in amqp.acked : a.uuid = u}

\* The envelope with uuid u is still on its way: in a producer queue, in a
\* broker queue, in a consumer queue, or its tag is in an ack queue
InFlight(u) ==
    \/ \E n \in MeshNodes : \E i \in 1..Len(peers[n].producer_queue) :
            peers[n].producer_queue[i].event.data._uuid = u
    \/ \E q \in DOMAIN amqp.ready : \E i \in 1..Len(amqp.ready[q]) :
            amqp.ready[q][i].message_id = u
    \/ \E n \in MeshNodes : \E i \in 1..Len(peers[n].consumer_queue) :
            peers[n].consumer_queue[i].event.attrs._uuid = u
    \/ \E n \in MeshNodes : \E i \in 1..Len(peers[n].ack_queue) :
            \E d \in amqp.unacked : /\ d.node = n
                                     /\ d.delivery_tag = peers[n].ack_queue[i]
                                     /\ d.message.message_id = u

\* No listener has raised while the envelope with uuid u was handled
NoListenerRaised(u) == \A r \in RunsOf(u) : r.outcome # "LISTENER_FAILED"

\* C13: with A and B both having registered a listener for E before Start, one
\* Trigger(E, GLOBAL_SINGLE) whose listener does not raise makes the listener
\* fire on at most one of A and B and brings at most one broker ack, and once
\* the envelope is no longer on its way the listener has fired on exactly one
\* of them and exactly one ack has been issued.
C13_GlobalSingleExactlyOne ==
    \A i \in 1..Len(sent) :
        (sent[i].demographic = "GLOBAL_SINGLE" /\ NoListenerRaised(UuidOf(i))) =>
            /\ Cardinality(RunsOf(UuidOf(i))) <= 1
            /\ Cardinality(AcksOf(UuidOf(i))) <= 1
            /\ \A r \in RunsOf(UuidOf(i)) : r.node \in {"A", "B"} /\ r.calls = <<"L1">>
            /\ \A a \in AcksOf(UuidOf(i)) : \E r \in RunsOf(UuidOf(i)) : r.node = a.node
            /\ ~InFlight(UuidOf(i)) =>
                  /\ Cardinality(RunsOf(UuidOf(i))) = 1
                  /\ Cardinality(AcksOf(UuidOf(i))) = 1

\* A GLOBAL_SINGLE envelope triggered on A whose listener fired on B, acked
C13_Witness ==
    \E i \in 1..Len(sent) :
        /\ sent[i].demographic = "GLOBAL_SINGLE"
        /\ sent[i].publisher = "A"
        /\ ~InFlight(UuidOf(i))
        /\ \E r \in RunsOf(UuidOf(i)) : r.node = "B" /\ r.outcome = "returned"
        /\ \E a \in AcksOf(UuidOf(i)) : a.node = "B"

\* The deliveries the broker has made: those unacknowledged and those acked
Deliveries ==
    {[node |-> d.node, uuid |-> d.message.message_id, queue |-> d.queue] : d \in amqp.unacked}
        \cup {[node |-> a.node, uuid |-> a.uuid, queue |-> a.queue] : a \in amqp.acked}

\* The nodes whose registry has an entry for the event of the i-th Trigger
ListenersFor(i) ==
    {n \in MeshNodes : QualifiedName(sent[i].event.class) \in DOMAIN peers[n].registry}

\* C15: a GLOBAL_ALL event named E is delivered to no peer that lacks a
\* listener for E: a node subscribed only to another event F never receives a
\* GLOBAL_ALL message for E and never fails to handle one.
C15_GlobalAllOnlyToSubscribers ==
    \A i \in 1..Len(sent) :
        sent[i].demographic = "GLOBAL_ALL" =>
            /\ \A d \in Deliveries : d.uuid = UuidOf(i) => d.node \in ListenersFor(i)
            /\ \A r \in RunsOf(UuidOf(i)) : r.outcome # "NO_LISTENERS"

\* The i-th Trigger of the mesh was addressed to a node
NodeAddressed(i) == sent[i].demographic \notin EventDemographic

\* C16: an event triggered with a node identifier as demographic is delivered
\* to the node queue of that single named node and to no other node, whatever
\* events the other nodes are subscribed to.
C16_NodeAddressedOnlyToThatNode ==
    \A i \in 1..Len(sent) :
        NodeAddressed(i) =>
            /\ \A q \in DOMAIN amqp.ready : \A k \in 1..Len(amqp.ready[q]) :
                  amqp.ready[q][k].message_id = UuidOf(i) => q = NodeKey(sent[i].demographic)
            /\ \A d \in Deliveries : d.uuid = UuidOf(i) =>
                  d.node = sent[i].demographic /\ d.queue = NodeKey(sent[i].demographic)
            /\ \A r \in RunsOf(UuidOf(i)) : r.node = sent[i].demographic

\* An envelope addressed to B by node.C, which listens for another event, has
\* been delivered from B's node queue and handled on B
C16_Witness ==
    \E i \in 1..Len(sent) :
        /\ sent[i].demographic = "B"
        /\ sent[i].publisher = "node.C"
        /\ \E d \in Deliveries : d.uuid = UuidOf(i) /\ d.queue = <<"node", "B">>
        /\ \E r \in RunsOf(UuidOf(i)) : r.node = "B" /\ r.calls = <<"L1">>

\* The Trigger that created the envelope with uuid u
TriggerOf(u) == sent[CHOOSE i \in 1..Len(sent) : UuidOf(i) = u]

\* C17: for every envelope received through the broker, the consumer stamps
\* source with exactly the node identifier of the publishing node, for every
\* node identifier, those that contain the text 'node.' included, and stamps
\* reply_to_uuid with the uuid of the reply target, or none when none was given.
C17_SourceIsPublisherIdentifier ==
    \A n \in MeshNodes : \A k \in 1..Len(peers[n].consumer_queue) :
        LET event   == peers[n].consumer_queue[k].event
            trigger == TriggerOf(event.attrs._uuid)
        IN  /\ event.attrs._source = Components(trigger.publisher)
            /\ event.attrs._reply_to_uuid =
                  (IF trigger.reply = None THEN "None" ELSE trigger.reply.attrs._uuid)

\* decode(encode(e)): dump and msgpack.dumps on the publishing side, then
\* msgpack.loads, the resolution of the class of that name and load
Decoded(e) ==
    LET data == Unpack(Pack(dump(e)))
    IN  load(ResolveClass(data.event), data.data)

\* The attributes of a received event other than the two stamps of on_consume
Unstamped(event) ==
    [k \in (DOMAIN event.attrs) \ {"_source", "_reply_to_uuid"} |-> event.attrs[k]]

-----------------------------------------------------------------------------
(* Claims on the mesh under fair scheduling, specification SpecMeshFair *)

\* The Handle runs of node n for the envelope with uuid u that called the
\* listener, and the acks the broker got from node n for it
FiredOn(n, u) == {r \in RunsOf(u) : r.node = n /\ r.calls = <<"L1">>}

AckedBy(n, u) == {a \in AcksOf(u) : a.node = n}

\* The i-th Trigger of the mesh has been made, with GLOBAL_ALL
SentGlobalAll(i) == i <= Len(sent) /\ sent[i].demographic = "GLOBAL_ALL"

\* The listener has fired once on A and once on B for the i-th envelope, and
\* the broker has its two acks
FanoutDone(i) ==
    /\ i <= Len(sent)
    /\ Cardinality(FiredOn("A", UuidOf(i))) = 1
    /\ Cardinality(FiredOn("B", UuidOf(i))) = 1
    /\ Cardinality(AckedBy("A", UuidOf(i))) = 1
    /\ Cardinality(AckedBy("B", UuidOf(i))) = 1
    /\ Cardinality(AcksOf(UuidOf(i))) = 2

\* C14: with A and B both having registered a listener for E before Start, one
\* Trigger(E, GLOBAL_ALL) by A results in the listener eventually having fired
\* once on A and once on B and in two broker acks, one per node queue copy,
\* for good; the listener never fires twice on one node for it.
C14_GlobalAllReachesBoth ==
    /\ <>[](\A i \in 1..Len(sent) : SentGlobalAll(i) => FanoutDone(i))
    /\ [](\A i \in 1..Len(sent) : \A n \in MeshNodes :
             /\ Cardinality(FiredOn(n, UuidOf(i))) <= 1
             /\ Cardinality(AckedBy(n, UuidOf(i))) <= 1)

\* The GLOBAL_ALL envelope of A has been handled and acked on A and on B
C14_Witness ==
    \E i \in 1..Len(sent) :
        /\ sent[i].demographic = "GLOBAL_ALL"
        /\ sent[i].publisher = "A"
        /\ FanoutDone(i)

-----------------------------------------------------------------------------
(* Claims on redelivery, specification SpecMeshRetry *)

\* The listener raised when the GLOBAL_SINGLE envelope of the i-th Trigger was
\* first handled
FirstCallRaised(i) ==
    /\ i <= Len(sent)
    /\ sent[i].demographic = "GLOBAL_SINGLE"
    /\ \E r \in RunsOf(UuidOf(i)) : r.outcome = "LISTENER_FAILED"

\* The listener has been invoked twice for the i-th envelope and the broker
\* has one ack for it
HandledOnRetry(i) ==
    /\ i <= Len(sent)
    /\ Cardinality({r \in RunsOf(UuidOf(i)) : r.calls = <<"L1">>}) = 2
    /\ Cardinality(AcksOf(UuidOf(i))) = 1

\* No node with a listener for the event of the i-th Trigger is running
NobodyListens(i) == i <= Len(sent) /\ \A n \in ListenersFor(i) : ~Up(n)

\* C18: when a listener raises on its first invocation for a GLOBAL_SINGLE
\* message and would succeed on the next, the unacknowledged message is
\* eventually redelivered and handled again: the listener is invoked twice for
\* it and exactly one ack is finally issued (unless every node that listens
\* for the event has stopped).
C18_RedeliveredAfterListenerFailure ==
    \A i \in 1..Len(MeshUuids) :
        FirstCallRaised(i) ~> (HandledOnRetry(i) \/ NobodyListens(i))

-----------------------------------------------------------------------------
(* Claims on shutdown, specification SpecNodeFair *)

\* No sub-process of the node is alive
NoProcessAlive ==
    /\ producer = "exited"
    /\ consumer = "exited"
    /\ \A w \in Workers : WorkerEnded(w)

-----------------------------------------------------------------------------
(* The queues at the end of close *)

\* C21: once close has returned (both joins done), the producer queue, the
\* consumer queue and the ack queue are all empty.
C21_QueuesEmptyAfterClose ==
    main = "stopped" =>
        /\ producer_queue = <<>>
        /\ consumer_queue = <<>>
        /\ ack_queue = <<>>

-----------------------------------------------------------------------------
(* The order of startup and of shutdown *)

\* The steps of start other than the registrations, in the order they were made
RECURSIVE StartSteps(_)
StartSteps(done) ==
    IF done = <<>> THEN <<>>
    ELSE (IF Head(done) \in {"configuration", "logging", "event_manager",
                             "connector_initialize", "connector_start", "worker_manager"}
          THEN <<Head(done)>> ELSE <<>>) \o StartSteps(Tail(done))

\* The position of the first step named so in done, 0 when there is none
First(done, step) ==
    IF \E i \in 1..Len(done) : done[i] = step
    THEN CHOOSE i \in 1..Len(done) : done[i] = step /\ \A j \in 1..(i - 1) : done[j] # step
    ELSE 0

StartupOrder ==
    <<"configuration", "logging", "event_manager", "connector_initialize",
      "connector_start", "worker_manager">>

\* C22: startup goes configuration, logging, dispatcher creation, connector
\* initialize, listener registrations, connector start, worker pool: the
\* dispatcher exists before the connector is initialised, every registration
\* precedes the connector's start, and no worker runs before that start.
C22_StartupOrder ==
    /\ IsPrefix(StartSteps(core.done), StartupOrder)
    /\ core.queue_connector # "unset" => core.event_manager # "unset"
    /\ \A i \in 1..Len(core.done) :
           core.done[i] = "register" =>
               /\ First(core.done, "connector_initialize") \in 1..(i - 1)
               /\ First(core.done, "connector_start") \notin 1..i
    /\ core.queue_connector # "started" => \A w \in Workers : workers[w].pc = "new"

\* stop was called after start had brought the whole node up
StoppedWhileRunning ==
    /\ First(core.done, "worker_manager") > 0
    /\ First(core.done, "stop") > First(core.done, "worker_manager")

\* The steps of stop that close something, in the order they were made
RECURSIVE ShutdownSteps(_)
ShutdownSteps(done) ==
    IF done = <<>> THEN <<>>
    ELSE (IF Head(done) \in {"workers_closed", "modules_stopped", "connector_closed"}
          THEN <<Head(done)>> ELSE <<>>) \o ShutdownSteps(Tail(done))

ShutdownOrder == <<"workers_closed", "modules_stopped", "connector_closed">>

\* C23: a stop of the running node closes the worker pool first, then stops
\* the modules, then closes the connector, and the connector's flag is never
\* set while a worker is still running.
C23_ShutdownOrder ==
    /\ StoppedWhileRunning => ShutdownSteps(core.done) = ShutdownOrder
    /\ processes_should_terminate =>
           \A w \in Workers : workers[w].pc \in {"new", "exited", "crashed"}

\* The number of steps named so in done
Times(done, step) == Cardinality({i \in 1..Len(done) : done[i] = step})

\* C24: a SIGINT or SIGTERM received by the running node causes exactly one
\* full stop and no start; a SIGHUP causes a full stop followed by a start,
\* after which the node is running again.
C24_SignalStopsOrRestarts ==
    (StoppedWhileRunning /\ core.signal # "none") =>
        /\ Times(core.done, "stopped") = 1
        /\ Times(core.done, "start") = (IF core.signal = "SIGHUP" THEN 2 ELSE 1)
        /\ core.signal = "SIGHUP" => core.pc \notin {"dead", "exited"}

-----------------------------------------------------------------------------
(* The event hooks *)

\* C25: after any sequence of Register calls the list of bound event names
\* holds each event name of the listener registry exactly once and nothing
\* else, whether the name was given as a string or came from an event class.
C25_HookOncePerEventName ==
    /\ \A i \in 1..Len(bound_event_names) : bound_event_names[i] \in DOMAIN event_listeners
    /\ \A name \in DOMAIN event_listeners : Count(bound_event_names, name) = 1
    /\ \A i \in 1..Len(regLog) : EventNameOf(regLog[i].event) \in DOMAIN event_listeners

\* One name registered through its class and through its string: one hook
C25_Witness ==
    /\ \E i, j \in 1..Len(regLog) :
           /\ regLog[i].event.isclass
           /\ ~regLog[j].event.isclass
           /\ EventNameOf(regLog[i].event) = EventNameOf(regLog[j].event)
    /\ Len(bound_event_names) = 1

\* The queues the consumer of node n consumes from
ConsumedQueues(n) == {c.queue : c \in {d \in amqp.consumers : d.node = n}}

\* C26: a started node consumes from its node queue and from the event queue
\* of every event name that had a listener before the start, and from no
\* other queue; every event name of its listener registry is one of them.
C26_ConsumesRegisteredEvents ==
    \A n \in MeshNodes :
        Up(n) =>
            /\ NodeKey(n) \in ConsumedQueues(n)
            /\ \A q \in ConsumedQueues(n) \ {NodeKey(n)} :
                   \E name \in DOMAIN peers[n].registry : q = <<"event">> \o name
            /\ \A name \in DOMAIN peers[n].registry : <<"event">> \o name \in ConsumedQueues(n)

-----------------------------------------------------------------------------
(* The worker pool *)

\* The worker processes that have been started and have not ended
LiveWorkers == {w \in Workers : workers[w].pc \notin {"new", "exited", "crashed"}}

\* C27: from the start of the pool until its stop sets the termination flag,
\* the number of live worker processes is the number of workers the pool was
\* started with: no worker ends before the flag is set, whatever listeners do.
C27_WorkerCountFixed ==
    (main = "running" /\ ~worker_terminate) => Cardinality(LiveWorkers) = Cardinality(Workers)

\* The delivery tags whose envelope has left the consumer queue and whose
\* Handle has not ended
InProgress ==
    {t \in 1..broker.delivered :
        /\ \A i \in 1..Len(consumer_queue) : consumer_queue[i].delivery_tag # t
        /\ \A h \in handled : h.delivery_tag # t}

\* The workers that are running Handle for delivery tag t
Handling(t) == {w \in Workers : workers[w].pc = "handle" /\ workers[w].item.delivery_tag = t}

\* C28: the Handle invocations in progress for broker-delivered envelopes are
\* at most as many as there are workers, and each is run by one worker, which
\* runs no other at the same time.
C28_HandlesBoundedByWorkers ==
    /\ Cardinality(InProgress) <= Cardinality(Workers)
    /\ \A t \in InProgress : Cardinality(Handling(t)) = 1
    /\ \A w \in Workers : workers[w].pc = "handle" => workers[w].item.delivery_tag \in InProgress

\* Both workers are running Handle, each for its own envelope
C28_Witness ==
    /\ \A w \in Workers : workers[w].pc = "handle"
    /\ Cardinality(InProgress) = Cardinality(Workers)

-----------------------------------------------------------------------------
(* The capacity of the queues *)

\* initialize creates the three queues with Queue(), without a maxsize: a put
\* succeeds whatever the queue holds. The only limit on the triples waiting
\* in the model is its bound; a capacity is taken below it.
Capacity == MaxQueue - 1

\* C29: the producer queue, the consumer queue and the ack queue never hold
\* more items than a fixed capacity (a writer to a full queue blocks).
C29_QueuesBounded ==
    /\ Len(producer_queue) <= Capacity
    /\ Len(consumer_queue) <= Capacity
    /\ Len(ack_queue) <= Capacity

-----------------------------------------------------------------------------
(* Messages the node cannot decode *)

\* C30: a broker message whose body is malformed or whose event name cannot
\* be resolved is not put on the consumer queue and not acknowledged, and the
\* consumer sub-process keeps running, so that later messages are enqueued.
C30_BadMessageDroppedConsumerRuns ==
    /\ \A i \in 1..Len(consumer_queue) : consumer_queue[i].event.class \in KnownClasses
    /\ \A i \in 1..Len(broker.acked) : \E h \in handled : h.delivery_tag = broker.acked[i]
    /\ consumer # "crashed"

-----------------------------------------------------------------------------
(* The stop of the worker pool *)

\* C31: stop does not end a Handle in progress: a worker that is running
\* Handle goes on to its end (and puts its tag when Handle returned), a worker
\* back at the head of its loop with the flag set takes no further pair, and
\* the joins of stop return only when every worker has ended.
C31_StopWaitsForHandles ==
    /\ [](main \in {"workers_joined", "closing", "stopped"} =>
              \A w \in Workers : WorkerEnded(w))
    /\ [][\A w \in Workers :
              /\ workers[w].pc = "handle" => workers'[w].pc \in {"handle", "ack", "crashed"}
              /\ workers[w].pc = "ack" =>
                     \/ workers'[w] = workers[w]
                     \/ /\ workers'[w].pc = "loop"
                        /\ ack_queue' = Append(ack_queue, workers[w].item.delivery_tag)
              /\ (worker_terminate /\ workers[w].pc = "loop") =>
                     workers'[w].pc \in {"loop", "exited"}]_vars

\* The joins of stop have returned, a worker has put the tag of its Handle,
\* and a pair is left on the consumer queue that no worker took
C31_Witness ==
    /\ main = "workers_joined"
    /\ ack_queue # <<>>
    /\ consumer_queue # <<>>

-----------------------------------------------------------------------------
(* Source and reply of an envelope *)

\* C32: an envelope created on a node, which has not passed through a
\* consumer, has the empty string as its source and is no reply; an envelope
\* has a source that is not empty only once a consumer has stamped it.
C32_LocalEnvelopeHasNoSource ==
    /\ \A i \in 1..Len(sent) :
           /\ source(sent[i].event) = [outcome |-> "returned", value |-> <<>>]
           /\ is_reply(sent[i].event) = [outcome |-> "returned", value |-> FALSE]
    /\ \A n \in MeshNodes : \A i \in 1..Len(peers[n].consumer_queue) :
           source(peers[n].consumer_queue[i].event).outcome = "returned"

-----------------------------------------------------------------------------
(* The buckets of a registry entry *)

\* The listeners registered for name with priority p, in the order of the
\* bucket; none when the registry has no entry for name
Bucket(registry, name, p) ==
    IF name \in DOMAIN registry
    THEN registry[name][CHOOSE i \in 1..Len(registry[name]) :
                            registry[name][i].priority = p].listeners
    ELSE <<>>

\* The priority a Register call names, MEDIUM when it names none
Named(call) == IF call.priority = NoPriority THEN MEDIUM ELSE call.priority

\* C33: a Register call appends its listener to the end of the bucket of its
\* priority (MEDIUM when none is given, HIGHEST when HIGHEST is given) of its
\* event, leaves every other bucket of that event and every other entry as
\* they were, and every entry has exactly the five buckets.
C33_RegisterFrameEffect ==
    /\ [](\A name \in DOMAIN event_listeners :
              /\ Len(event_listeners[name]) = 5
              /\ {event_listeners[name][i].priority : i \in 1..5} = EventPriority)
    /\ [][Len(regLog') = Len(regLog) + 1 =>
              LET call == regLog'[Len(regLog')]
                  name == EventNameOf(call.event)
              IN  /\ Bucket(event_listeners', name, Named(call)) =
                         Append(Bucket(event_listeners, name, Named(call)), call.listener)
                  /\ \A p \in EventPriority \ {Named(call)} :
                         Bucket(event_listeners', name, p) = Bucket(event_listeners, name, p)
                  /\ DOMAIN event_listeners' = DOMAIN event_listeners \cup {name}
                  /\ \A other \in DOMAIN event_listeners \ {name} :
                         event_listeners'[other] = event_listeners[other]]_vars

\* A listener registered with HIGHEST stands in the HIGHEST bucket, behind
\* nothing, and one registered without priority in the MEDIUM bucket
C33_Witness ==
    /\ Len(regLog) = 2
    /\ regLog[1].priority = HIGHEST
    /\ regLog[2].priority = NoPriority
    /\ EventNameOf(regLog[1].event) = EventNameOf(regLog[2].event)
    /\ Bucket(event_listeners, EventNameOf(regLog[1].event), HIGHEST) = <<regLog[1].listener>>
    /\ Bucket(event_listeners, EventNameOf(regLog[1].event), MEDIUM) = <<regLog[2].listener>>

-----------------------------------------------------------------------------
(* The acknowledgements *)

\* The consumer sub-process is in its loop
ConsumerRunning == consumer \in {"loop", "acks", "drain"}

\* The tags acknowledged to the broker followed by those waiting on the ack queue
TagsInOrder == broker.acked \o ack_queue

\* C34: while the consumer runs, every tag put on the ack queue is taken off
\* and acknowledged once, with the same tag and in the order of the queue, the
\* consumer turns to the broker's events only with the ack queue empty, and in
\* the end no tag is left waiting.
C34_TagsAckedInOrder ==
    /\ [][\/ TagsInOrder' = TagsInOrder
          \/ /\ broker.acked' = broker.acked
             /\ \E w \in Workers : TagsInOrder' = Append(TagsInOrder, workers[w].item.delivery_tag)]_vars
    /\ [][(consumer # "drain" /\ consumer' = "drain") => ack_queue = <<>>]_vars
    /\ <>[](ConsumerRunning => ack_queue = <<>>)

\* Two tags have been acknowledged in the order they were queued, which is
\* not the order of the deliveries, and the consumer is still running
C34_Witness ==
    /\ ConsumerRunning
    /\ broker.acked = <<2, 1>>

-----------------------------------------------------------------------------
(* SIGINT *)

\* C35: a SIGINT that goes to every process of the node interrupts no worker
\* and neither the producer nor the consumer: each leaves its loop only with
\* its termination flag set by the stop of the supervisor.
C35_SigintLeftToSupervisor ==
    /\ producer # "interrupted"
    /\ consumer # "interrupted"
    /\ \A w \in Workers : workers[w].pc # "interrupted"
    /\ producer = "exited" => processes_should_terminate
    /\ consumer = "exited" => processes_should_terminate
    /\ \A w \in Workers : workers[w].pc = "exited" => worker_terminate

\* A SIGINT has gone to the running node and every sub-process is in its loop
C35_Witness ==
    /\ last.op = "SIGINT"
    /\ main = "running"
    /\ producer \in {"loop", "get"}
    /\ consumer \in {"loop", "acks", "drain"}
    /\ \A w \in Workers : workers[w].pc \in {"loop", "get", "handle", "ack"}

-----------------------------------------------------------------------------
(* One worker per delivery *)

\* The workers that hold the pair of delivery tag t: they have taken it off
\* the consumer queue and have not put its tag yet
Holders(t) ==
    {w \in Workers : workers[w].pc \in {"handle", "ack"} /\ workers[w].item.delivery_tag = t}

\* C36: a pair the consumer put on the consumer queue is taken by at most one
\* worker: no delivery is handled by two workers, and no delivery tag is put
\* on the ack queue or acknowledged twice.
C36_OneWorkerPerDelivery ==
    \A t \in 1..broker.delivered :
        /\ Cardinality(Holders(t)) + Cardinality({h \in handled : h.delivery_tag = t})
               + Cardinality({i \in 1..Len(consumer_queue) : consumer_queue[i].delivery_tag = t})
             <= 1 + Cardinality({w \in Holders(t) : workers[w].pc = "ack"})
        /\ Count(TagsInOrder, t) <= 1
        /\ Count(TagsInOrder, t) + Cardinality(Holders(t)) <= 1

\* Two deliveries were taken by the two workers, one each, and both tags
\* have been acknowledged
C36_Witness ==
    /\ broker.delivered = 2
    /\ Len(broker.acked) = 2
    /\ \A t \in 1..2 : Count(broker.acked, t) = 1

-----------------------------------------------------------------------------
(* The order of publication *)

\* The messages published so far followed by those the waiting triples will
\* make, in the order of the producer queue
MessagesInOrder ==
    broker.published \o
        [i \in 1..Len(producer_queue) |-> PublishedMessage(producer_queue[i], NodeIdentifier)]

\* C37: the producer publishes in the order of the Trigger calls: the message
\* of a triple is published before that of any triple put after it, and no
\* triple is published twice.
C37_PublishedInTriggerOrder ==
    [][\/ MessagesInOrder' = MessagesInOrder
       \/ /\ broker.published' = broker.published
          /\ Len(producer_queue') = Len(producer_queue) + 1
          /\ SubSeq(MessagesInOrder', 1, Len(MessagesInOrder)) = MessagesInOrder]_vars

\* Two triples that differ were put one after the other and the first has
\* been published while the second waits
C37_Witness ==
    /\ Len(broker.published) = 1
    /\ Len(producer_queue) = 1
    /\ PublishedMessage(producer_queue[1], NodeIdentifier) # broker.published[1]

MessageOf(n, tag) ==
    (CHOOSE d \in amqp.unacked : d.node = n /\ d.delivery_tag = tag).message

\* The envelopes waiting on the consumer queues, each with its message
Receipts ==
    UNION {{[event   |-> peers[n].consumer_queue[k].event,
             message |-> MessageOf(n, peers[n].consumer_queue[k].delivery_tag)] :
                k \in 1..Len(peers[n].consumer_queue)} : n \in MeshNodes}

\* The payload of a message without the keys _source and _reply_to_uuid
PayloadWithoutStamps(message) ==
    LET data == Unpack(message.body).data
    IN  [k \in (DOMAIN data) \ {"_source", "_reply_to_uuid"} |-> data[k]]

\* C39: source and reply_to_uuid of a received envelope depend on the message
\* properties reply_to and correlation_id only, never on the body: two
\* messages with the same two properties, whatever _source and _reply_to_uuid
\* their payloads carry, yield the same source and the same reply_to_uuid.
C39_StampsFromPropertiesOnly ==
    \A r1 \in Receipts : \A r2 \in Receipts :
        (/\ r1.message.reply_to = r2.message.reply_to
         /\ r1.message.correlation_id = r2.message.correlation_id) =>
            /\ source(r1.event) = source(r2.event)
            /\ reply_to_uuid(r1.event) = reply_to_uuid(r2.event)

\* Two received messages with the same properties that differ only in the
\* _source and _reply_to_uuid of their payloads, one of which names a source
\* other than the one stamped
C39_Witness ==
    \E r1 \in Receipts : \E r2 \in Receipts :
        /\ r1.message.reply_to = r2.message.reply_to
        /\ r1.message.correlation_id = r2.message.correlation_id
        /\ r1.message.body # r2.message.body
        /\ PayloadWithoutStamps(r1.message) = PayloadWithoutStamps(r2.message)
        /\ "_source" \in DOMAIN Unpack(r2.message.body).data
        /\ Unpack(r2.message.body).data._source # source(r2.event).value
        /\ Unpack(r2.message.body).data._reply_to_uuid # reply_to_uuid(r2.event).value

\* The steps made since the last start
RECURSIVE SinceStart(_)
SinceStart(done) ==
    IF done = <<>> THEN <<>>
    ELSE IF done[Len(done)] = "start" THEN <<>>
    ELSE Append(SinceStart(SubSeq(done, 1, Len(done) - 1)), done[Len(done)])

\* C40: stop runs at most once per start: after a stop of the running node
\* triggered by a signal, neither the exit handler nor a second signal that
\* arrives during or after that stop enters stop a second time.
C40_StopOncePerStart ==
    StoppedWhileRunning => Times(SinceStart(core.done), "stop") <= 1

====
